---- MODULE Spec2Model ----
(***************************************************************************)
(* Verification model of the search and ranking engine of the document     *)
(* store (SearchRepository in search.repo): vector math, searchSimilar,    *)
(* searchByText, searchByTextAdvanced, hybridSearch, searchWithClustering  *)
(* and searchWithFacets, over the two tables created by                    *)
(* checkAndCreateTables (documents, embeddings); and of the callers that   *)
(* write the store and talk to the language model: CrudRepository,         *)
(* OfflineChatService, OfflineEmbeddingMigration and OfflineLLMAPI.        *)
(*                                                                         *)
(* Numbers.  The program computes in IEEE doubles.  The model computes in  *)
(* fixed point: an integer n stands for the number n / SCALE, and every    *)
(* multiplication, division and square root rounds to the nearest unit,    *)
(* as the floating point operations round to the nearest double.           *)
(*                                                                         *)
(* Strings.  A title, a content or a search term is a sequence of one      *)
(* character strings.                                                      *)
(*                                                                         *)
(* Optional values.  An optional argument or field (undefined in the       *)
(* program) is a sequence of length 0 (absent) or 1 (present).             *)
(*                                                                         *)
(* Time.  created_at and the clock are seconds of universal time.          *)
(***************************************************************************)
EXTENDS Integers, Sequences, FiniteSets, TLC

\* ---------------------------------------------------------------- bounds
MaxDocs == 3        \* rows of the documents table
MaxLimit == 3       \* largest `limit` a caller passes
MaxHistory == 4     \* messages a conversation holds after the system prompt
MaxCalls == 2       \* asynchronous calls a run makes
SCALE == 1000       \* fixed point resolution: 1.0 is SCALE

\* ------------------------------------------------------------- variables
VARIABLES
    documents,      \* table documents, in rowid order
    embeddings,     \* table embeddings, in rowid order
    pc,             \* the caller: "idle", or "returned" holding a result
    result,         \* the last call and what it returned or threw
    sequence,       \* the last id AUTOINCREMENT gave a document
    chatService,    \* the OfflineChatService of the caller, when it has one
    calls           \* the asynchronous calls made: the locals of a call at
                    \* an await, the outcome of a call that is done

vars == <<documents, embeddings, pc, result, sequence, chatService, calls>>

\* what does not belong to the SearchRepository
service == <<sequence, chatService, calls>>

\* ------------------------------------------------------- number helpers
Absent == <<>>
Some(x) == <<x>>
IsPresent(o) == Len(o) > 0
Get(o) == o[1]

Min(a, b) == IF a <= b THEN a ELSE b
Max(a, b) == IF a >= b THEN a ELSE b

\* a / b rounded to the nearest integer, b > 0
RoundDiv(a, b) == (2 * a + b) \div (2 * b)

\* x * y and x / y on fixed point numbers
Mul(x, y) == RoundDiv(x * y, SCALE)
Div(x, y) == RoundDiv(x * SCALE, y)

RECURSIVE SqrtNewton(_, _)
\* the largest integer whose square is at most n, for n > 0, by Newton's
\* iteration from a start r >= sqrt(n)
SqrtNewton(n, r) ==
    LET next == (r + n \div r) \div 2
    IN  IF next < r THEN SqrtNewton(n, next) ELSE r

\* Math.sqrt on a fixed point number x >= 0, rounded to the nearest unit
Sqrt(x) ==
    IF x = 0 THEN 0
    ELSE LET n == x * SCALE
             r == SqrtNewton(n, Max(x, SCALE))
         IN  IF n - r * r > r THEN r + 1 ELSE r

RECURSIVE SumTo(_, _)
\* f[1] + ... + f[n], accumulated left to right from 0
SumTo(f, n) == IF n = 0 THEN 0 ELSE SumTo(f, n - 1) + f[n]

\* ---------------------------------------------------------- VectorMath
Returned(v) == [threw |-> FALSE, value |-> v]
Thrown == [threw |-> TRUE, value |-> 0]

\* cosineSimilarity taking two vectors of magnitude zero for identical
cosineSimilarityZeroAsOne(vecA, vecB) ==
    IF Len(vecA) # Len(vecB) THEN Thrown
    ELSE LET n == Len(vecA)
             dotProduct == SumTo([i \in 1..n |-> Mul(vecA[i], vecB[i])], n)
             normA == SumTo([i \in 1..n |-> Mul(vecA[i], vecA[i])], n)
             normB == SumTo([i \in 1..n |-> Mul(vecB[i], vecB[i])], n)
             magnitude == Mul(Sqrt(normA), Sqrt(normB))
         IN  Returned(IF magnitude = 0 THEN SCALE
                                       ELSE Div(dotProduct, magnitude))

cosineSimilarity(vecA, vecB) ==
    IF Len(vecA) # Len(vecB) THEN Thrown
    ELSE LET n == Len(vecA)
             dotProduct == SumTo([i \in 1..n |-> Mul(vecA[i], vecB[i])], n)
             normA == SumTo([i \in 1..n |-> Mul(vecA[i], vecA[i])], n)
             normB == SumTo([i \in 1..n |-> Mul(vecB[i], vecB[i])], n)
             magnitude == Mul(Sqrt(normA), Sqrt(normB))
         IN  Returned(IF magnitude = 0 THEN 0 ELSE Div(dotProduct, magnitude))

euclideanDistance(vecA, vecB) ==
    IF Len(vecA) # Len(vecB) THEN Thrown
    ELSE LET n == Len(vecA)
             sum == SumTo([i \in 1..n |->
                              Mul(vecA[i] - vecB[i], vecA[i] - vecB[i])], n)
         IN  Returned(Sqrt(sum))

\* ------------------------------------------------------------ the store
\* the embedding column holds JSON.stringify(embedding); JSON.parse reads
\* the array back
JSONStringify(vec) == [array |-> vec]
JSONParse(text) == text.array

\* a text of the embedding column that holds no JSON array: the file was
\* damaged, or the row was written from a value that was no array
MalformedText == [malformed |-> "{"]

\* the text is one that JSON.parse reads back as an array
IsJSONArrayText(text) == DOMAIN text = {"array"}

\* the value undefined
Undefined == [undefined |-> TRUE]

\* JSON.parse(value) of any value: a value that is no string is converted
\* to one first ("[object Object]" for a row, "undefined" for undefined),
\* and a text that is no JSON makes JSON.parse throw a SyntaxError
JSONParseAny(value) ==
    IF IsJSONArrayText(value) THEN [threw |-> FALSE, value |-> JSONParse(value)]
    ELSE [threw |-> TRUE, value |-> Undefined]

\* what a caller inserts: a title, a content and the embedding of the text
DocInputs ==
    { [title |-> <<"M", "L">>, content |-> <<"a", "i">>,
       embedding |-> <<SCALE, 0>>],
      [title |-> <<"d", "b">>, content |-> <<"m", "l">>,
       embedding |-> <<0, SCALE>>],
      [title |-> <<"d", "b">>, content |-> <<"s", "q">>,
       embedding |-> <<(7 * SCALE) \div 10, (7 * SCALE) \div 10>>],
      [title |-> <<"a", "_">>, content |-> <<"s", "q">>,
       embedding |-> <<0 - SCALE, 0>>],
      [title |-> <<"a", "i">>, content |-> <<"L", "m">>,
       embedding |-> <<SCALE, 0, 0>>] }

\* table documents after inserting ins[1], ins[2], ... : ids are assigned
\* 1, 2, ... and created_at is the second of the insert (all in one second,
\* or one second apart)
DocumentsOf(ins, spaced) ==
    [i \in 1..Len(ins) |->
        [id |-> i, title |-> ins[i].title, content |-> ins[i].content,
         created_at |-> IF spaced THEN i - 1 ELSE 0]]

\* table embeddings as insertDocument leaves it: one row per document, in
\* the order of the inserts
EmbeddingsInserted(ins) ==
    [i \in 1..Len(ins) |->
        [document_id |-> i, embedding |-> JSONStringify(ins[i].embedding)]]

\* table embeddings as migrateEmbeddings leaves it: the rows deleted and
\* written again in the order of getAllDocuments, newest document first;
\* the first `done` rows only when it stopped part-way
EmbeddingsMigrated(ins, done) ==
    [k \in 1..done |->
        [document_id |-> Len(ins) + 1 - k,
         embedding |-> JSONStringify(ins[Len(ins) + 1 - k].embedding)]]

\* table embeddings with the text of row k overwritten by a malformed one
EmbeddingsCorrupted(ins, k) ==
    [EmbeddingsInserted(ins) EXCEPT ![k].embedding = MalformedText]

\* SELECT d.id, d.title, d.content, d.created_at, e.embedding
\* FROM documents d JOIN embeddings e ON d.id = e.document_id: the scan
\* visits the embeddings in rowid order and looks each document up by id
RECURSIVE JoinRows(_, _)
JoinRows(docs, embs) ==
    IF Len(embs) = 0 THEN <<>>
    ELSE LET e == Head(embs)
             ds == SelectSeq(docs, LAMBDA d : d.id = e.document_id)
         IN  [i \in 1..Len(ds) |->
                 [id |-> ds[i].id, title |-> ds[i].title,
                  content |-> ds[i].content,
                  created_at |-> ds[i].created_at,
                  embedding |-> e.embedding]]
             \o JoinRows(docs, Tail(embs))

\* ------------------------------------------------------ SimilarityRanker
NoFilters ==
    [startDate |-> Absent, endDate |-> Absent,
     minSimilarity |-> Absent, maxResults |-> Absent]

\* AllDocs on a statement that is kept between calls and goes on after the
\* rows the previous call returned
AllDocsKeptCursor(filters) ==
    LET rows == JoinRows(documents, embeddings)
        seen == IF pc = "returned" /\ result.op = "searchSimilar"
                THEN {result.ret.value[i].id : i \in 1..Len(result.ret.value)}
                ELSE {}
        fresh == SelectSeq(rows, LAMBDA r : r.id \notin seen)
    IN  IF IsPresent(filters.startDate) /\ IsPresent(filters.endDate)
        THEN SelectSeq(fresh, LAMBDA r :
                 /\ r.created_at >= Get(filters.startDate)
                 /\ r.created_at <= Get(filters.endDate))
        ELSE fresh

\* stmt.all(...queryParams): the joined rows, WHERE d.created_at BETWEEN
\* startDate AND endDate when both dates are given
AllDocs(filters) ==
    LET rows == JoinRows(documents, embeddings)
    IN  IF IsPresent(filters.startDate) /\ IsPresent(filters.endDate)
        THEN SelectSeq(rows, LAMBDA r :
                 /\ r.created_at >= Get(filters.startDate)
                 /\ r.created_at <= Get(filters.endDate))
        ELSE rows

\* ScoreDoc deriving the Euclidean similarity as 1 - distance
ScoreDocLinear(doc, queryEmbedding, useCosineSimilarity) ==
    LET docEmbedding == JSONParse(doc.embedding)
    IN  IF JSONParseAny(doc.embedding).threw
        THEN [threw |-> TRUE, value |-> Undefined]
        ELSE IF useCosineSimilarity
        THEN LET c == cosineSimilarity(queryEmbedding, docEmbedding)
             IN  [threw |-> c.threw,
                  value |-> [id |-> doc.id, title |-> doc.title,
                             content |-> doc.content,
                             created_at |-> doc.created_at,
                             similarity |-> c.value,
                             distance |-> SCALE - c.value]]
        ELSE LET e == euclideanDistance(queryEmbedding, docEmbedding)
             IN  [threw |-> e.threw,
                  value |-> [id |-> doc.id, title |-> doc.title,
                             content |-> doc.content,
                             created_at |-> doc.created_at,
                             similarity |-> SCALE - e.value,
                             distance |-> e.value]]

\* the callback of allDocs.map: one scored result, or the throw of the
\* vector function
ScoreDoc(doc, queryEmbedding, useCosineSimilarity) ==
    LET docEmbedding == JSONParse(doc.embedding)
    IN  IF JSONParseAny(doc.embedding).threw
        THEN [threw |-> TRUE, value |-> Undefined]
        ELSE IF useCosineSimilarity
        THEN LET c == cosineSimilarity(queryEmbedding, docEmbedding)
             IN  [threw |-> c.threw,
                  value |-> [id |-> doc.id, title |-> doc.title,
                             content |-> doc.content,
                             created_at |-> doc.created_at,
                             similarity |-> c.value,
                             distance |-> SCALE - c.value]]
        ELSE LET e == euclideanDistance(queryEmbedding, docEmbedding)
             IN  [threw |-> e.threw,
                  value |-> [id |-> doc.id, title |-> doc.title,
                             content |-> doc.content,
                             created_at |-> doc.created_at,
                             similarity |-> Div(SCALE, SCALE + e.value),
                             distance |-> e.value]]

\* sort with the comparator turned round: ascending by key
SortAscending(seq, keys) ==
    LET n == Len(seq)
        rank(i) == Cardinality({j \in 1..n :
                       \/ keys[j] < keys[i]
                       \/ (keys[j] = keys[i] /\ j < i)}) + 1
    IN  [p \in 1..n |-> seq[CHOOSE i \in 1..n : rank(i) = p]]

\* a sort that is not stable: equal keys come out in reverse
SortDescendingUnstable(seq, keys) ==
    LET n == Len(seq)
        rank(i) == Cardinality({j \in 1..n :
                       \/ keys[j] > keys[i]
                       \/ (keys[j] = keys[i] /\ j > i)}) + 1
    IN  [p \in 1..n |-> seq[CHOOSE i \in 1..n : rank(i) = p]]

\* Array.prototype.sort((a, b) => key(b) - key(a)): descending by key,
\* equal keys keep their order (the sort is stable); keys[i] is the key of
\* seq[i]
SortDescending(seq, keys) ==
    LET n == Len(seq)
        rank(i) == Cardinality({j \in 1..n :
                       \/ keys[j] > keys[i]
                       \/ (keys[j] = keys[i] /\ j < i)}) + 1
    IN  [p \in 1..n |-> seq[CHOOSE i \in 1..n : rank(i) = p]]

\* slice keeping one element too many
SliceOneMore(seq, end) ==
    SubSeq(seq, 1, IF end >= 0 THEN Min(end + 1, Len(seq))
                               ELSE Max(Len(seq) + end, 0))

\* Array.prototype.slice(0, end)
Slice(seq, end) ==
    SubSeq(seq, 1, IF end >= 0 THEN Min(end, Len(seq))
                               ELSE Max(Len(seq) + end, 0))

\* a number used as a condition: 0 is falsy
Truthy(o) == IsPresent(o) /\ Get(o) # 0

\* searchSimilar leaving out the rows whose embedding has another length
searchSimilarSkipping(queryEmbedding, limit, useCosineSimilarity, filters) ==
    LET allDocs == AllDocs(filters)
        scored == [i \in 1..Len(allDocs) |->
                      ScoreDoc(allDocs[i], queryEmbedding, useCosineSimilarity)]
        kept == SelectSeq(scored, LAMBDA r : ~r.threw)
        similarities == [i \in 1..Len(kept) |-> kept[i].value]
        filteredSimilarities ==
            IF Truthy(filters.minSimilarity)
            THEN SelectSeq(similarities, LAMBDA doc :
                     doc.similarity >= Get(filters.minSimilarity))
            ELSE similarities
        sorted == SortDescending(filteredSimilarities,
                      [i \in 1..Len(filteredSimilarities) |->
                          filteredSimilarities[i].similarity])
        maxResults == IF Truthy(filters.maxResults)
                      THEN Get(filters.maxResults) ELSE limit
    IN  [threw |-> FALSE, value |-> Slice(sorted, maxResults)]

\* searchSimilar taking a statement without rows for a failure
searchSimilarRequiringRows(queryEmbedding, limit, useCosineSimilarity, filters) ==
    LET allDocs == AllDocs(filters)
        scored == [i \in 1..Len(allDocs) |->
                      ScoreDoc(allDocs[i], queryEmbedding, useCosineSimilarity)]
    IN  IF allDocs = <<>> \/ \E i \in 1..Len(allDocs) : scored[i].threw
        THEN [threw |-> TRUE, value |-> <<>>]
        ELSE LET similarities == [i \in 1..Len(allDocs) |-> scored[i].value]
                 filteredSimilarities ==
                     IF Truthy(filters.minSimilarity)
                     THEN SelectSeq(similarities, LAMBDA doc :
                              doc.similarity >= Get(filters.minSimilarity))
                     ELSE similarities
                 sorted == SortDescending(filteredSimilarities,
                               [i \in 1..Len(filteredSimilarities) |->
                                   filteredSimilarities[i].similarity])
                 maxResults == IF Truthy(filters.maxResults)
                               THEN Get(filters.maxResults) ELSE limit
             IN  [threw |-> FALSE, value |-> Slice(sorted, maxResults)]

\* filteredSimilarities.sort((a, b) => b.similarity - a.similarity) and
\* filteredSimilarities.slice(0, maxResults)
SortAndSlice(filteredSimilarities, maxResults) ==
    Slice(SortDescending(filteredSimilarities,
              [i \in 1..Len(filteredSimilarities) |->
                  filteredSimilarities[i].similarity]),
          maxResults)

\* the array allDocs.map returned, filtered by minSimilarity when it is
\* given and not 0, sorted, and cut at maxResults || limit
RankSimilarities(similarities, limit, filters) ==
    SortAndSlice(IF Truthy(filters.minSimilarity)
                 THEN SelectSeq(similarities, LAMBDA doc :
                          doc.similarity >= Get(filters.minSimilarity))
                 ELSE similarities,
                 IF Truthy(filters.maxResults)
                 THEN Get(filters.maxResults) ELSE limit)

\* a throw of the callback on any row ends the call with the error; scored
\* holds the outcome of the callback on every row
RankScored(scored, limit, filters) ==
    IF \E i \in 1..Len(scored) : scored[i].threw
    THEN [threw |-> TRUE, value |-> <<>>]
    ELSE [threw |-> FALSE,
          value |-> RankSimilarities(
                        [i \in 1..Len(scored) |-> scored[i].value],
                        limit, filters)]

\* allDocs.map(doc => ...)
MapScoreDoc(allDocs, queryEmbedding, useCosineSimilarity) ==
    [i \in 1..Len(allDocs) |->
        ScoreDoc(allDocs[i], queryEmbedding, useCosineSimilarity)]

searchSimilar(queryEmbedding, limit, useCosineSimilarity, filters) ==
    RankScored(MapScoreDoc(AllDocs(filters), queryEmbedding,
                           useCosineSimilarity),
               limit, filters)

\* ---------------------------------------------------------- TextMatcher
\* SQLite folds the ASCII letters when LIKE compares two characters
Lower(c) ==
    CASE c = "A" -> "a" [] c = "I" -> "i" [] c = "L" -> "l"
      [] c = "M" -> "m" [] OTHER -> c

RECURSIVE Like(_, _)
\* text LIKE pattern: % matches any run of characters, _ any one character
Like(pattern, text) ==
    IF Len(pattern) = 0 THEN Len(text) = 0
    ELSE IF Head(pattern) = "%"
         THEN \/ Like(Tail(pattern), text)
              \/ (Len(text) > 0 /\ Like(pattern, Tail(text)))
         ELSE /\ Len(text) > 0
              /\ \/ Head(pattern) = "_"
                 \/ Lower(Head(pattern)) = Lower(Head(text))
              /\ Like(Tail(pattern), Tail(text))

\* ORDER BY d.created_at DESC: rows of one second keep the order of the scan
OrderByCreatedAtDesc(rows) ==
    SortDescending(rows, [i \in 1..Len(rows) |-> rows[i].created_at])

\* LIMIT ?: a negative limit is no limit
SqlLimit(rows, limit) ==
    IF limit < 0 THEN rows ELSE SubSeq(rows, 1, Min(limit, Len(rows)))

searchByText(searchTerm, limit) ==
    LET searchPattern == <<"%">> \o searchTerm \o <<"%">>
        matching == SelectSeq(documents, LAMBDA d :
                        \/ Like(searchPattern, d.title)
                        \/ Like(searchPattern, d.content))
    IN  SqlLimit(OrderByCreatedAtDesc(matching), limit)

\* Number.prototype.toString of an integer: its decimal digits
Digit(d) ==
    CASE d = 0 -> "0" [] d = 1 -> "1" [] d = 2 -> "2" [] d = 3 -> "3"
      [] d = 4 -> "4" [] d = 5 -> "5" [] d = 6 -> "6" [] d = 7 -> "7"
      [] d = 8 -> "8" [] OTHER -> "9"

RECURSIVE NatToString(_)
NatToString(n) ==
    IF n < 10 THEN <<Digit(n)>>
    ELSE NatToString(n \div 10) \o <<Digit(n % 10)>>

NumberToString(n) == IF n < 0 THEN <<"-">> \o NatToString(0 - n) ELSE NatToString(n)

RECURSIVE TextToNat(_)
TextToNat(text) ==
    IF Len(text) = 0 THEN 0
    ELSE TextToNat(SubSeq(text, 1, Len(text) - 1)) * 10
             + (CHOOSE d \in 0..9 : Digit(d) = text[Len(text)])

\* the integer SQLite reads from a text bound to LIMIT ?
SqlInteger(text) ==
    IF Head(text) = "-" THEN 0 - TextToNat(Tail(text)) ELSE TextToNat(text)

\* the WHERE clause of searchByTextAdvanced: one condition
\* (d.title LIKE ? OR d.content LIKE ?) per term, joined by the operator
MatchesTerm(d, term) ==
    LET pattern == <<"%">> \o term \o <<"%">>
    IN  Like(pattern, d.title) \/ Like(pattern, d.content)

\* searchByTextAdvanced joining the conditions by OR whatever the operator
searchByTextAdvancedAnyTerm(searchTerms, operator, limit) ==
    IF Len(searchTerms) = 0 THEN [threw |-> TRUE, value |-> <<>>]
    ELSE LET matching == SelectSeq(documents, LAMBDA d :
                 \E i \in 1..Len(searchTerms) : MatchesTerm(d, searchTerms[i]))
         IN  [threw |-> FALSE,
              value |-> SqlLimit(OrderByCreatedAtDesc(matching),
                                 SqlInteger(NumberToString(limit)))]

\* without a term the WHERE clause is empty and the statement does not
\* prepare
searchByTextAdvanced(searchTerms, operator, limit) ==
    IF Len(searchTerms) = 0 THEN [threw |-> TRUE, value |-> <<>>]
    ELSE LET matching == SelectSeq(documents, LAMBDA d :
                 IF operator = "AND"
                 THEN \A i \in 1..Len(searchTerms) :
                          MatchesTerm(d, searchTerms[i])
                 ELSE \E i \in 1..Len(searchTerms) :
                          MatchesTerm(d, searchTerms[i]))
         IN  [threw |-> FALSE,
              value |-> SqlLimit(OrderByCreatedAtDesc(matching),
                                 SqlInteger(NumberToString(limit)))]

\* ---------------------------------------------------------- HybridFusion
\* position of the key in the Map, 0 when it has no entry
MapIndex(m, key) ==
    IF \E i \in 1..Len(m) : m[i].id = key
    THEN CHOOSE i \in 1..Len(m) : m[i].id = key
    ELSE 0

\* Map.set adding an entry for every call, also for a known key
MapSetAppend(m, key, entry) == Append(m, entry)

\* Map.set: a new key is added last, a known key keeps its place
MapSet(m, key, entry) ==
    IF MapIndex(m, key) = 0 THEN Append(m, entry)
    ELSE [m EXCEPT ![MapIndex(m, key)] = entry]

RECURSIVE AddTextResults(_, _, _)
AddTextResults(combinedResults, textResults, textWeight) ==
    IF Len(textResults) = 0 THEN combinedResults
    ELSE LET doc == Head(textResults)
         IN  AddTextResults(
                 MapSet(combinedResults, doc.id,
                     [id |-> doc.id, title |-> doc.title,
                      content |-> doc.content,
                      created_at |-> doc.created_at,
                      similarity |-> 0, distance |-> 0,
                      textScore |-> textWeight, semanticScore |-> 0,
                      totalScore |-> textWeight]),
                 Tail(textResults), textWeight)

RECURSIVE AddSemanticResultsNoText(_, _, _)
\* AddSemanticResults overwriting the total of a document found by both
\* searches with its semantic score
AddSemanticResultsNoText(combinedResults, semanticResults, semanticWeight) ==
    IF Len(semanticResults) = 0 THEN combinedResults
    ELSE LET doc == Head(semanticResults)
             at == MapIndex(combinedResults, doc.id)
             existing == combinedResults[at]
             semanticScore == Mul(doc.similarity, semanticWeight)
             entry ==
                 IF at # 0
                 THEN [existing EXCEPT
                          !.similarity = doc.similarity,
                          !.distance = doc.distance,
                          !.semanticScore = semanticScore,
                          !.totalScore = semanticScore]
                 ELSE [id |-> doc.id, title |-> doc.title,
                       content |-> doc.content,
                       created_at |-> doc.created_at,
                       similarity |-> doc.similarity,
                       distance |-> doc.distance,
                       textScore |-> 0, semanticScore |-> semanticScore,
                       totalScore |-> semanticScore]
         IN  AddSemanticResultsNoText(MapSet(combinedResults, doc.id, entry),
                                      Tail(semanticResults), semanticWeight)

RECURSIVE AddSemanticResultsKeepingKnown(_, _, _)
\* AddSemanticResults leaving the entry of a document the text search found
\* as the text search made it
AddSemanticResultsKeepingKnown(combinedResults, semanticResults, semanticWeight) ==
    IF Len(semanticResults) = 0 THEN combinedResults
    ELSE LET doc == Head(semanticResults)
             at == MapIndex(combinedResults, doc.id)
             semanticScore == Mul(doc.similarity, semanticWeight)
             entry ==
                 IF at # 0
                 THEN combinedResults[at]
                 ELSE [id |-> doc.id, title |-> doc.title,
                       content |-> doc.content,
                       created_at |-> doc.created_at,
                       similarity |-> doc.similarity,
                       distance |-> doc.distance,
                       textScore |-> 0, semanticScore |-> semanticScore,
                       totalScore |-> semanticScore]
         IN  AddSemanticResultsKeepingKnown(
                 MapSet(combinedResults, doc.id, entry),
                 Tail(semanticResults), semanticWeight)

RECURSIVE AddSemanticResults(_, _, _)
AddSemanticResults(combinedResults, semanticResults, semanticWeight) ==
    IF Len(semanticResults) = 0 THEN combinedResults
    ELSE LET doc == Head(semanticResults)
             at == MapIndex(combinedResults, doc.id)
             existing == combinedResults[at]
             semanticScore == Mul(doc.similarity, semanticWeight)
             entry ==
                 IF at # 0
                 THEN [existing EXCEPT
                          !.similarity = doc.similarity,
                          !.distance = doc.distance,
                          !.semanticScore = semanticScore,
                          !.totalScore = existing.textScore + semanticScore]
                 ELSE [id |-> doc.id, title |-> doc.title,
                       content |-> doc.content,
                       created_at |-> doc.created_at,
                       similarity |-> doc.similarity,
                       distance |-> doc.distance,
                       textScore |-> 0, semanticScore |-> semanticScore,
                       totalScore |-> semanticScore]
         IN  AddSemanticResults(MapSet(combinedResults, doc.id, entry),
                                Tail(semanticResults), semanticWeight)

\* hybridSearch asking both searches for `limit` results, not twice as many
hybridSearchLimit(query, queryEmbedding, textWeight, semanticWeight, limit) ==
    LET textResults == searchByText(query, limit)
        semantic == searchSimilar(queryEmbedding, limit, TRUE, NoFilters)
    IN  IF semantic.threw THEN [threw |-> TRUE, value |-> <<>>]
        ELSE LET combinedResults ==
                     AddSemanticResults(
                         AddTextResults(<<>>, textResults, textWeight),
                         semantic.value, semanticWeight)
                 sorted == SortDescending(combinedResults,
                               [i \in 1..Len(combinedResults) |->
                                   combinedResults[i].totalScore])
             IN  [threw |-> FALSE, value |-> Slice(sorted, limit)]

hybridSearch(query, queryEmbedding, textWeight, semanticWeight, limit) ==
    LET textResults == searchByText(query, limit * 2)
        semantic == searchSimilar(queryEmbedding, limit * 2, TRUE, NoFilters)
    IN  IF semantic.threw THEN [threw |-> TRUE, value |-> <<>>]
        ELSE LET combinedResults ==
                     AddSemanticResults(
                         AddTextResults(<<>>, textResults, textWeight),
                         semantic.value, semanticWeight)
                 sorted == SortDescending(combinedResults,
                               [i \in 1..Len(combinedResults) |->
                                   combinedResults[i].totalScore])
             IN  [threw |-> FALSE, value |-> Slice(sorted, limit)]

\* --------------------------------------------------------- ClusterBuilder
\* this.db.prepare('SELECT embedding FROM embeddings WHERE document_id = ?')
\* .get(id): the first such row as an object with the one column, or
\* undefined
GetEmbeddingRow(id) ==
    LET rows == SelectSeq(embeddings, LAMBDA e : e.document_id = id)
    IN  IF Len(rows) = 0 THEN Undefined
        ELSE [embedding |-> rows[1].embedding]

\* JSON.parse(row).embedding: the row is an object, not its text, so
\* JSON.parse throws; had it returned an array, the array has no property
\* `embedding`
ParsedRowEmbedding(row) ==
    LET parsed == JSONParseAny(row)
    IN  IF parsed.threw THEN [threw |-> TRUE, value |-> Undefined]
        ELSE [threw |-> FALSE, value |-> Undefined]

\* cosineSimilarity(docEmbedding, otherEmbedding) in the inner loop: reading
\* the length of undefined throws a TypeError
SimilarityOfParsed(docEmbedding, otherEmbedding) ==
    IF docEmbedding.threw \/ otherEmbedding.threw THEN Thrown
    ELSE IF docEmbedding.value = Undefined \/ otherEmbedding.value = Undefined
         THEN Thrown
         ELSE cosineSimilarity(docEmbedding.value, otherEmbedding.value)

RECURSIVE AbsorbSimilar(_, _, _, _, _, _)
\* the inner loop from allResults[k] on: the documents of the cluster of
\* seed `doc` and the processed ids, or the throw
AbsorbSimilar(allResults, k, doc, clusterDocuments, processed, similarityThreshold) ==
    IF k > Len(allResults)
    THEN [threw |-> FALSE, documents |-> clusterDocuments,
          processed |-> processed]
    ELSE LET otherDoc == allResults[k]
         IN  IF otherDoc.id \in processed
             THEN AbsorbSimilar(allResults, k + 1, doc, clusterDocuments,
                                processed, similarityThreshold)
             ELSE LET docEmbedding ==
                          ParsedRowEmbedding(GetEmbeddingRow(doc.id))
                      otherEmbedding ==
                          ParsedRowEmbedding(GetEmbeddingRow(otherDoc.id))
                      similarity ==
                          SimilarityOfParsed(docEmbedding, otherEmbedding)
                  IN  IF similarity.threw
                      THEN [threw |-> TRUE, documents |-> <<>>,
                            processed |-> processed]
                      ELSE IF similarity.value >= similarityThreshold
                           THEN AbsorbSimilar(allResults, k + 1, doc,
                                    Append(clusterDocuments, otherDoc),
                                    processed \cup {otherDoc.id},
                                    similarityThreshold)
                           ELSE AbsorbSimilar(allResults, k + 1, doc,
                                    clusterDocuments, processed,
                                    similarityThreshold)

RECURSIVE ClusterLoop(_, _, _, _, _, _)
\* the outer loop from allResults[i] on; clusterIndex is the number of
\* clusters made so far
ClusterLoop(allResults, i, clusters, processed, limit, similarityThreshold) ==
    IF i > Len(allResults) THEN [threw |-> FALSE, value |-> clusters]
    ELSE LET doc == allResults[i]
         IN  IF doc.id \in processed
             THEN ClusterLoop(allResults, i + 1, clusters, processed, limit,
                              similarityThreshold)
             ELSE LET inner == AbsorbSimilar(allResults, 1, doc, <<doc>>,
                                   processed \cup {doc.id},
                                   similarityThreshold)
                      pushed == Append(clusters,
                                    [cluster |-> Len(clusters),
                                     documents |-> inner.documents])
                  IN  IF inner.threw THEN [threw |-> TRUE, value |-> <<>>]
                      ELSE IF Len(pushed) >= limit
                           THEN [threw |-> FALSE, value |-> pushed]
                           ELSE ClusterLoop(allResults, i + 1, pushed,
                                    inner.processed, limit,
                                    similarityThreshold)

searchWithClustering(queryEmbedding, limit, similarityThreshold) ==
    LET allResults == searchSimilar(queryEmbedding, limit * 3, TRUE, NoFilters)
    IN  IF allResults.threw THEN [threw |-> TRUE, value |-> <<>>]
        ELSE ClusterLoop(allResults.value, 1, <<>>, {}, limit,
                         similarityThreshold)

\* ------------------------------------------------------- FacetSummarizer
DAY == 24 * 3600

\* the number of f[1..n] equal to b
RECURSIVE CountOf(_, _, _)
CountOf(f, n, b) ==
    IF n = 0 THEN 0
    ELSE CountOf(f, n - 1, b) + (IF f[n] = b THEN 1 ELSE 0)

\* the similarity band with the comparisons strict
SimilarityBandStrict(similarity) ==
    IF similarity > (9 * SCALE) \div 10 THEN 1
    ELSE IF similarity > (7 * SCALE) \div 10 THEN 2
    ELSE IF similarity > (5 * SCALE) \div 10 THEN 3
    ELSE 4

\* the index of the similarityRanges entry a result is counted in
SimilarityBand(similarity) ==
    IF similarity >= (9 * SCALE) \div 10 THEN 1
    ELSE IF similarity >= (7 * SCALE) \div 10 THEN 2
    ELSE IF similarity >= (5 * SCALE) \div 10 THEN 3
    ELSE 4

\* new Date(doc.created_at).getTime(): created_at is the text
\* 'YYYY-MM-DD HH:MM:SS' of CURRENT_TIMESTAMP, a universal time without a
\* zone; Date reads such a text as a time of the local zone, which is
\* timezoneOffset seconds ahead of universal time
DateParse(created_at, timezoneOffset) == created_at - timezoneOffset

\* the index of the timePeriods entry a result is counted in;
\* daysDiff <= n is timeDiff <= n days
TimePeriod(created_at, now, timezoneOffset) ==
    LET timeDiff == now - DateParse(created_at, timezoneOffset)
    IN  IF timeDiff <= DAY THEN 1
        ELSE IF timeDiff <= 7 * DAY THEN 2
        ELSE IF timeDiff <= 30 * DAY THEN 3
        ELSE 4

\* now is the clock at the call and timezoneOffset the zone of the process
searchWithFacets(queryEmbedding, limit, now, timezoneOffset) ==
    LET found == searchSimilar(queryEmbedding, limit, TRUE, NoFilters)
        results == found.value
        n == Len(results)
        band == [i \in 1..n |-> SimilarityBand(results[i].similarity)]
        period == [i \in 1..n |->
                      TimePeriod(results[i].created_at, now, timezoneOffset)]
    IN  IF found.threw THEN [threw |-> TRUE, value |-> <<>>]
        ELSE [threw |-> FALSE,
              value |-> [results |-> results,
                         similarityRanges |->
                             [b \in 1..4 |-> CountOf(band, n, b)],
                         timePeriods |->
                             [b \in 1..4 |-> CountOf(period, n, b)]]]

\* ---------------------------------------------------- OfflineChatService
\* A call of the Ollama client either fails (the server is down, the model
\* is missing) or answers.
Failed == [failed |-> TRUE]

SystemPrompt == <<"Y", "o", "u">>
Apology == <<"I">>

\* new OfflineChatService(searchRepo, crudRepo): the history starts with
\* the system prompt
NewOfflineChatService ==
    [conversationHistory |->
         << [role |-> "system", content |-> SystemPrompt] >>,
     context |-> <<>>]

\* isAvailable on the answer of ollama.list(): the chat model and the
\* embedding model are both among the models
isAvailable(listed) ==
    IF listed.failed THEN FALSE
    ELSE /\ \E name \in listed.models : name = "llama3.2:3b"
         /\ \E name \in listed.models : name = "nomic-embed-text"

RECURSIVE CombineUnseen(_, _)
\* the results whose id was not seen, in their order
CombineUnseen(results, seen) ==
    IF Len(results) = 0 THEN <<>>
    ELSE IF Head(results).id \in seen
         THEN CombineUnseen(Tail(results), seen)
         ELSE <<Head(results)>>
              \o CombineUnseen(Tail(results), seen \cup {Head(results).id})

combineResults(vectorResults, textResults) ==
    CombineUnseen(
        [i \in 1..Len(vectorResults) |->
            [searchType |-> "vector"] @@ vectorResults[i]]
        \o [i \in 1..Len(textResults) |->
               [searchType |-> "text"] @@ textResults[i]],
        {})

\* the average over all results of the similarities that are truthy, as a
\* percentage, at most 95
calculateConfidence(results) ==
    IF Len(results) = 0 THEN 0
    ELSE LET n == Len(results)
             sum == SumTo([i \in 1..n |->
                              IF "similarity" \in DOMAIN results[i]
                              THEN results[i].similarity ELSE 0], n)
         IN  Min(100 * RoundDiv(sum, n), 95 * SCALE)

\* the error a failed call of the Ollama client throws, and the one of
\* cosineSimilarity
FetchFailed == <<"fetch failed">>
SameLength == <<"Vectors must have the same length">>

\* chat that lets the error of searchSimilar through
chatFailingFast(svc, userMessage, generated, answered) ==
    LET asked == Append(svc.conversationHistory,
                        [role |-> "user", content |-> userMessage])
        left == [svc EXCEPT !.conversationHistory = asked]
    IN  IF generated.failed
        THEN [threw |-> TRUE, value |-> <<"Chat failed: ">> \o FetchFailed,
              service |-> left]
        ELSE LET similar == searchSimilar(generated.embedding, 5, TRUE,
                                          NoFilters)
                 searchResults == IF similar.threw THEN <<>>
                                  ELSE similar.value
                 textResults == searchByText(userMessage, 3)
                 allResults == combineResults(searchResults, textResults)
             IN  IF similar.threw \/ answered.failed
                 THEN [threw |-> TRUE,
                       value |-> <<"Chat failed: ">>
                                 \o (IF similar.threw THEN SameLength
                                    ELSE FetchFailed),
                       service |-> left]
                 ELSE LET llmResponse ==
                              IF Len(answered.response) = 0 THEN Apology
                              ELSE answered.response
                      IN  [threw |-> FALSE,
                           value |->
                               [message |-> llmResponse,
                                searchResults |-> allResults,
                                sources |-> [i \in 1..Len(allResults) |->
                                                allResults[i].title],
                                confidence |->
                                    calculateConfidence(allResults),
                                model |-> "llama3.2:3b"],
                           service |->
                               [conversationHistory |->
                                    Append(asked,
                                        [role |-> "assistant",
                                         content |-> llmResponse,
                                         searchResults |-> allResults]),
                                context |-> answered.context]]

\* OfflineChatService.chat(userMessage), given what the embedding model
\* and the chat model answer: the value it returns or the message of the
\* error it throws, and the service as it leaves it.  The user message is
\* pushed before the first await; an error of searchSimilar is caught and
\* the search goes on with the text results.
chat(svc, userMessage, generated, answered) ==
    LET asked == Append(svc.conversationHistory,
                        [role |-> "user", content |-> userMessage])
        left == [svc EXCEPT !.conversationHistory = asked]
    IN  IF generated.failed
        THEN [threw |-> TRUE, value |-> <<"Chat failed: ">> \o FetchFailed,
              service |-> left]
        ELSE LET similar == searchSimilar(generated.embedding, 5, TRUE,
                                          NoFilters)
                 searchResults == IF similar.threw THEN <<>>
                                  ELSE similar.value
                 textResults == searchByText(userMessage, 3)
                 allResults == combineResults(searchResults, textResults)
             IN  IF answered.failed
                 THEN [threw |-> TRUE,
                       value |-> <<"Chat failed: ">>
                                 \o FetchFailed,
                       service |-> left]
                 ELSE LET llmResponse ==
                              IF Len(answered.response) = 0 THEN Apology
                              ELSE answered.response
                      IN  [threw |-> FALSE,
                           value |->
                               [message |-> llmResponse,
                                searchResults |-> allResults,
                                sources |-> [i \in 1..Len(allResults) |->
                                                allResults[i].title],
                                confidence |->
                                    calculateConfidence(allResults),
                                model |-> "llama3.2:3b"],
                           service |->
                               [conversationHistory |->
                                    Append(asked,
                                        [role |-> "assistant",
                                         content |-> llmResponse,
                                         searchResults |-> allResults]),
                                context |-> answered.context]]

getHistory(svc) ==
    SelectSeq(svc.conversationHistory, LAMBDA msg : msg.role # "system")

clearHistory(svc) ==
    [conversationHistory |->
         SelectSeq(svc.conversationHistory, LAMBDA msg : msg.role = "system"),
     context |-> <<>>]

\* ------------------------------------------------------------ the calls
Queries == { <<SCALE, 0>> }
Limits == 1..MaxLimit

FilterInputs ==
    { NoFilters }
    \cup { [NoFilters EXCEPT !.minSimilarity = Some(m)] :
             m \in { 0, SCALE \div 2, (11 * SCALE) \div 10 } }
    \cup { [NoFilters EXCEPT !.maxResults = Some(m)] :
             m \in { 0, 1, MaxLimit + 1, 0 - 1 } }
    \cup { [NoFilters EXCEPT !.startDate = Some(1), !.endDate = Some(2)] }

Vectors == { <<>>, <<0, 0>>, <<SCALE, 0>>, <<0 - SCALE, 0>>, <<SCALE, 0, 0>> }

SearchTerms == { <<"m", "l">>, <<"a", "_">> }

\* textWeight and semanticWeight: the defaults 0.3 and 0.7, and the two
\* one-sided settings
Weights ==
    { <<(3 * SCALE) \div 10, (7 * SCALE) \div 10>>, <<0, SCALE>>, <<SCALE, 0>> }

\* the lists of terms of a searchByTextAdvanced call, and its operators
TermLists == { <<>>, << <<"m", "l">> >>, << <<"m", "l">>, <<"a", "_">> >> }
Operators == { "AND", "OR" }

\* similarityThreshold: the default 0.8, 0.99, and 1.0
Thresholds == { (8 * SCALE) \div 10, (99 * SCALE) \div 100, SCALE }

\* the limits of a searchWithFacets call: the small ones and the default 20
FacetLimits == Limits \cup { 20 }

\* the clock at a searchWithFacets call: the second of the last insert, and
\* one second past one day, seven days and thirty days
Nows == { 2, DAY + 1, 7 * DAY + 1, 30 * DAY + 1 }

\* the zone of the process: universal time, two hours ahead of it, five
\* hours behind it
TimezoneOffsets == { 0, 2 * 3600, 0 - 5 * 3600 }

\* the embedding of length 1.0 whose cosine to [1, 0] is h hundredths
UnitVector(h) ==
    LET c == (h * SCALE) \div 100
    IN  <<c, Sqrt(SCALE - Mul(c, c))>>

\* documents inserted with the embeddings of the given cosines to [1, 0]
InputsOfCosines(hs) ==
    [i \in 1..Len(hs) |->
        [title |-> <<"d", "b">>, content |-> <<"s", "q">>,
         embedding |-> UnitVector(hs[i])]]

\* the corpora of ten documents with the similarities 0.95, 0.92, 0.8,
\* 0.75, 0.6, 0.55, 0.4, 0.3, 0.2, 0.1 to the query [1, 0], and of three
\* documents with the similarities 0.9, 0.7, 0.5
FacetCorpora ==
    { InputsOfCosines(<<95, 92, 80, 75, 60, 55, 40, 30, 20, 10>>),
      InputsOfCosines(<<90, 70, 50>>) }

\* what the callers of the OfflineLLMAPI say and add, and what the models
\* answer: the embedding model gives vectors of two numbers or, once it was
\* changed, of three
Messages == { <<"m", "l">> }
ServiceInputs == { d \in DocInputs : d.embedding[1] = SCALE }
Generated ==
    { Failed,
      [failed |-> FALSE, embedding |-> <<SCALE, 0>>],
      [failed |-> FALSE, embedding |-> <<SCALE, 0, 0>>] }
Answered ==
    { Failed,
      [failed |-> FALSE, response |-> <<"o", "k">>, context |-> <<1>>],
      [failed |-> FALSE, response |-> <<>>, context |-> <<1>>] }
Listed ==
    { Failed,
      [failed |-> FALSE, models |-> {}],
      [failed |-> FALSE, models |-> {"llama3.2:3b"}],
      [failed |-> FALSE, models |-> {"llama3.2:3b", "nomic-embed-text"}] }

\* CURRENT_TIMESTAMP at a write: the second of the newest document, or the
\* one after it while the clock is within the seconds 0 .. MaxDocs - 1
CurrentTimestamps ==
    LET newest == IF Len(documents) = 0 THEN 0
                  ELSE CHOOSE t \in {documents[i].created_at :
                                        i \in 1..Len(documents)} :
                           \A i \in 1..Len(documents) :
                               documents[i].created_at <= t
    IN  { newest } \cup { t \in { newest + 1 } : t < MaxDocs }

\* The store holds up to MaxDocs documents.  Every document was inserted
\* with its embedding (insertDocument); migrateEmbeddings has since either
\* not run, or rewritten the embeddings newest document first, or stopped
\* after the first row.  The inserts fell in one second or one second apart.
Init ==
    /\ \E n \in 0..MaxDocs : \E ins \in [1..n -> DocInputs] :
          \/ /\ documents = DocumentsOf(ins, FALSE)
             /\ embeddings = EmbeddingsInserted(ins)
          \/ /\ documents = DocumentsOf(ins, TRUE)
             /\ \/ embeddings = EmbeddingsInserted(ins)
                \/ embeddings = EmbeddingsMigrated(ins, n)
                \/ embeddings = EmbeddingsMigrated(ins, Min(n, 1))
    /\ pc = "idle"
    /\ result = [op |-> "none"]
    /\ sequence = Len(documents)
    /\ chatService = Absent
    /\ calls = <<>>

\* The stores the bulk operations are called on: those of Init, a store in
\* which the text of one embedding row is malformed, and the facet corpora.
InitBulk ==
    /\ \/ \E n \in 0..MaxDocs : \E ins \in [1..n -> DocInputs] :
             \/ /\ documents = DocumentsOf(ins, FALSE)
                /\ embeddings = EmbeddingsInserted(ins)
             \/ /\ documents = DocumentsOf(ins, TRUE)
                /\ \/ embeddings = EmbeddingsInserted(ins)
                   \/ embeddings = EmbeddingsMigrated(ins, n)
                   \/ embeddings = EmbeddingsMigrated(ins, Min(n, 1))
                   \/ \E k \in 1..n :
                         embeddings = EmbeddingsCorrupted(ins, k)
       \/ \E ins \in FacetCorpora :
             /\ documents = DocumentsOf(ins, TRUE)
             /\ embeddings = EmbeddingsInserted(ins)
    /\ pc = "idle"
    /\ result = [op |-> "none"]
    /\ sequence = Len(documents)
    /\ chatService = Absent
    /\ calls = <<>>

\* The stores every search operation is called on: up to MaxDocs documents
\* inserted one second apart, with their embeddings, or with none (after a
\* migrateEmbeddings that stopped at its first document).
InitSearch ==
    /\ \E n \in 0..MaxDocs : \E ins \in [1..n -> DocInputs] :
          /\ documents = DocumentsOf(ins, TRUE)
          /\ \/ embeddings = EmbeddingsInserted(ins)
             \/ embeddings = EmbeddingsMigrated(ins, 0)
    /\ pc = "idle"
    /\ result = [op |-> "none"]
    /\ sequence = Len(documents)
    /\ chatService = Absent
    /\ calls = <<>>

CosineSimilarity ==
    /\ pc = "idle"
    /\ \E a \in Vectors : \E b \in Vectors :
          result' = [op |-> "cosineSimilarity", vecA |-> a, vecB |-> b,
                     ret |-> cosineSimilarity(a, b)]
    /\ pc' = "returned"
    /\ UNCHANGED <<documents, embeddings, service>>

EuclideanDistance ==
    /\ pc = "idle"
    /\ \E a \in Vectors : \E b \in Vectors :
          result' = [op |-> "euclideanDistance", vecA |-> a, vecB |-> b,
                     ret |-> euclideanDistance(a, b)]
    /\ pc' = "returned"
    /\ UNCHANGED <<documents, embeddings, service>>

\* a searchSimilar whose sort reaches the stored rows: the embeddings are
\* left in the reverse of their order
SearchSimilarSortingRows ==
    /\ pc = "idle"
    /\ \E q \in Queries : \E limit \in Limits : \E cos \in BOOLEAN :
       \E filters \in FilterInputs :
          LET ret == searchSimilar(q, limit, cos, filters)
          IN  result' = [op |-> "searchSimilar",
                         queryEmbedding |-> q, limit |-> limit,
                         useCosineSimilarity |-> cos, filters |-> filters,
                         ret |-> ret, calls |-> 1, first |-> ret]
    /\ pc' = "returned"
    /\ embeddings' = [k \in 1..Len(embeddings) |->
                          embeddings[Len(embeddings) + 1 - k]]
    /\ UNCHANGED <<documents, service>>

SearchSimilar ==
    /\ pc = "idle"
    /\ \E q \in Queries : \E limit \in Limits : \E cos \in BOOLEAN :
       \E filters \in FilterInputs :
          LET ret == searchSimilar(q, limit, cos, filters)
          IN  result' = [op |-> "searchSimilar",
                         queryEmbedding |-> q, limit |-> limit,
                         useCosineSimilarity |-> cos, filters |-> filters,
                         ret |-> ret, calls |-> 1, first |-> ret]
    /\ pc' = "returned"
    /\ UNCHANGED <<documents, embeddings, service>>

\* the caller repeats its searchSimilar call with the same arguments and
\* keeps the result of the first call beside the new one
SearchSimilarAgain ==
    /\ pc = "returned"
    /\ result.op = "searchSimilar"
    /\ result.calls = 1
    /\ result' = [result EXCEPT
                     !.ret = searchSimilar(result.queryEmbedding, result.limit,
                                 result.useCosineSimilarity, result.filters),
                     !.calls = 2,
                     !.first = result.ret]
    /\ UNCHANGED <<documents, embeddings, pc, service>>

SearchByText ==
    /\ pc = "idle"
    /\ \E term \in SearchTerms : \E limit \in Limits :
          result' = [op |-> "searchByText", searchTerm |-> term,
                     limit |-> limit,
                     ret |-> [threw |-> FALSE,
                              value |-> searchByText(term, limit)]]
    /\ pc' = "returned"
    /\ UNCHANGED <<documents, embeddings, service>>

HybridSearch ==
    /\ pc = "idle"
    /\ \E query \in SearchTerms : \E q \in Queries : \E w \in Weights :
       \E limit \in Limits :
          result' = [op |-> "hybridSearch", query |-> query,
                     queryEmbedding |-> q, textWeight |-> w[1],
                     semanticWeight |-> w[2], limit |-> limit,
                     ret |-> hybridSearch(query, q, w[1], w[2], limit)]
    /\ pc' = "returned"
    /\ UNCHANGED <<documents, embeddings, service>>

SearchByTextAdvanced ==
    /\ pc = "idle"
    /\ \E terms \in TermLists : \E operator \in Operators :
       \E limit \in Limits :
          result' = [op |-> "searchByTextAdvanced", searchTerms |-> terms,
                     operator |-> operator, limit |-> limit,
                     ret |-> searchByTextAdvanced(terms, operator, limit)]
    /\ pc' = "returned"
    /\ UNCHANGED <<documents, embeddings, service>>

SearchWithClustering ==
    /\ pc = "idle"
    /\ \E q \in Queries : \E limit \in Limits :
       \E similarityThreshold \in Thresholds :
          result' = [op |-> "searchWithClustering", queryEmbedding |-> q,
                     limit |-> limit,
                     similarityThreshold |-> similarityThreshold,
                     ret |-> searchWithClustering(q, limit,
                                                  similarityThreshold)]
    /\ pc' = "returned"
    /\ UNCHANGED <<documents, embeddings, service>>

SearchWithFacets ==
    /\ pc = "idle"
    /\ \E q \in Queries : \E limit \in FacetLimits : \E now \in Nows :
       \E timezoneOffset \in TimezoneOffsets :
          result' = [op |-> "searchWithFacets", queryEmbedding |-> q,
                     limit |-> limit, now |-> now,
                     timezoneOffset |-> timezoneOffset,
                     ret |-> searchWithFacets(q, limit, now, timezoneOffset)]
    /\ pc' = "returned"
    /\ UNCHANGED <<documents, embeddings, service>>

\* ------------------------------------------------------- OfflineLLMAPI
\* the store connectDB opens: database.db as it was left, here empty or
\* with one document
InitService ==
    /\ \E n \in 0..1 : \E ins \in [1..n -> ServiceInputs] :
          /\ documents = DocumentsOf(ins, TRUE)
          /\ embeddings = EmbeddingsInserted(ins)
    /\ pc = "idle"
    /\ result = [op |-> "none"]
    /\ sequence = Len(documents)
    /\ chatService = Absent
    /\ calls = <<>>

NotInitialized ==
    [success |-> FALSE,
     error |-> <<"Chat service not initialized. Call initialize() first.">>]

isReady == IsPresent(chatService)

\* insertDocument(title, content, embedding) of the compiled
\* CrudRepository: one transaction inserts the document and its embedding
insertDocumentWithEmbedding(title, content, embedding, created_at) ==
    [documents |->
         Append(documents,
                [id |-> sequence + 1, title |-> title, content |-> content,
                 created_at |-> created_at]),
     embeddings |->
         Append(embeddings,
                [document_id |-> sequence + 1,
                 embedding |-> JSONStringify(embedding)]),
     docId |-> sequence + 1]

Initialize ==
    /\ pc = "idle"
    /\ \E listed \in Listed :
          result' = [op |-> "initialize", listed |-> listed,
                     ret |-> isAvailable(listed)]
    /\ chatService' = Some(NewOfflineChatService)
    /\ pc' = "returned"
    /\ UNCHANGED <<documents, embeddings, sequence, calls>>

Chat ==
    /\ pc = "idle"
    /\ \E message \in Messages :
          IF ~isReady
          THEN /\ result' = [op |-> "chat", message |-> message,
                             ret |-> NotInitialized]
               /\ chatService' = chatService
          ELSE /\ Len(getHistory(Get(chatService))) + 2 <= MaxHistory
               /\ \E generated \in Generated : \E answered \in Answered :
                     LET r == chat(Get(chatService), message, generated,
                                   answered)
                     IN  /\ chatService' = Some(r.service)
                         /\ result' =
                                [op |-> "chat", message |-> message,
                                 generated |-> generated,
                                 answered |-> answered,
                                 ret |->
                                     IF r.threw
                                     THEN [success |-> FALSE,
                                           error |-> r.value]
                                     ELSE [success |-> TRUE,
                                           response |-> r.value.message,
                                           sources |-> r.value.sources,
                                           confidence |->
                                               r.value.confidence,
                                           model |-> r.value.model]]
    /\ pc' = "returned"
    /\ UNCHANGED <<documents, embeddings, sequence, calls>>

SearchDatabase ==
    /\ pc = "idle"
    /\ \E query \in Messages : \E limit \in Limits :
          IF ~isReady
          THEN result' = [op |-> "searchDatabase", query |-> query,
                          limit |-> limit, ret |-> NotInitialized]
          ELSE \E generated \in Generated :
                  LET results ==
                          IF generated.failed THEN Thrown
                          ELSE searchSimilar(generated.embedding, limit,
                                             TRUE, NoFilters)
                  IN  result' =
                          [op |-> "searchDatabase", query |-> query,
                           limit |-> limit, generated |-> generated,
                           ret |->
                               IF generated.failed
                               THEN [success |-> FALSE,
                                     error |-> FetchFailed]
                               ELSE IF results.threw
                               THEN [success |-> FALSE,
                                     error |-> SameLength]
                               ELSE [success |-> TRUE,
                                     results |-> results.value]]
    /\ pc' = "returned"
    /\ UNCHANGED <<documents, embeddings, service>>

\* addDocument without the test of this.chatService: the call of
\* generateEmbedding on undefined throws a TypeError, which is caught
AddDocumentUnguarded ==
    /\ pc = "idle"
    /\ \E d \in ServiceInputs :
          IF ~isReady
          THEN /\ result' = [op |-> "addDocument", title |-> d.title,
                             content |-> d.content,
                             ret |-> [success |-> FALSE,
                                      error |-> <<"Cannot read properties">>]]
               /\ UNCHANGED <<documents, embeddings, sequence>>
          ELSE /\ sequence < MaxDocs
               /\ \E generated \in
                        { Failed,
                          [failed |-> FALSE, embedding |-> d.embedding] } :
                     IF generated.failed
                     THEN /\ result' =
                                 [op |-> "addDocument", title |-> d.title,
                                  content |-> d.content,
                                  generated |-> generated,
                                  ret |-> [success |-> FALSE,
                                           error |-> FetchFailed]]
                          /\ UNCHANGED <<documents, embeddings, sequence>>
                     ELSE \E created_at \in CurrentTimestamps :
                             LET ins == insertDocumentWithEmbedding(
                                            d.title, d.content,
                                            generated.embedding, created_at)
                             IN  /\ documents' = ins.documents
                                 /\ embeddings' = ins.embeddings
                                 /\ sequence' = ins.docId
                                 /\ result' =
                                        [op |-> "addDocument",
                                         title |-> d.title,
                                         content |-> d.content,
                                         generated |-> generated,
                                         ret |-> [success |-> TRUE,
                                                  documentId |-> ins.docId]]
    /\ pc' = "returned"
    /\ UNCHANGED <<chatService, calls>>

AddDocument ==
    /\ pc = "idle"
    /\ \E d \in ServiceInputs :
          IF ~isReady
          THEN /\ result' = [op |-> "addDocument", title |-> d.title,
                             content |-> d.content, ret |-> NotInitialized]
               /\ UNCHANGED <<documents, embeddings, sequence>>
          ELSE /\ sequence < MaxDocs
               /\ \E generated \in
                        { Failed,
                          [failed |-> FALSE, embedding |-> d.embedding] } :
                     IF generated.failed
                     THEN /\ result' =
                                 [op |-> "addDocument", title |-> d.title,
                                  content |-> d.content,
                                  generated |-> generated,
                                  ret |-> [success |-> FALSE,
                                           error |-> FetchFailed]]
                          /\ UNCHANGED <<documents, embeddings, sequence>>
                     ELSE \E created_at \in CurrentTimestamps :
                             LET ins == insertDocumentWithEmbedding(
                                            d.title, d.content,
                                            generated.embedding, created_at)
                             IN  /\ documents' = ins.documents
                                 /\ embeddings' = ins.embeddings
                                 /\ sequence' = ins.docId
                                 /\ result' =
                                        [op |-> "addDocument",
                                         title |-> d.title,
                                         content |-> d.content,
                                         generated |-> generated,
                                         ret |-> [success |-> TRUE,
                                                  documentId |-> ins.docId]]
    /\ pc' = "returned"
    /\ UNCHANGED <<chatService, calls>>

GetHistory ==
    /\ pc = "idle"
    /\ result' = [op |-> "getHistory",
                  ret |-> IF ~isReady THEN <<>>
                          ELSE getHistory(Get(chatService))]
    /\ pc' = "returned"
    /\ UNCHANGED <<documents, embeddings, service>>

ClearHistory ==
    /\ pc = "idle"
    /\ chatService' = IF ~isReady THEN chatService
                      ELSE Some(clearHistory(Get(chatService)))
    /\ result' = [op |-> "clearHistory", ret |-> isReady]
    /\ pc' = "returned"
    /\ UNCHANGED <<documents, embeddings, sequence, calls>>

IsReady ==
    /\ pc = "idle"
    /\ result' = [op |-> "isReady", ret |-> isReady]
    /\ pc' = "returned"
    /\ UNCHANGED <<documents, embeddings, service>>

\* -------------------------------------------------------- CrudRepository
\* what the callers of the CrudRepository insert
CrudInputs == { d \in DocInputs : d.content = <<"m", "l">> }

\* the embedding the model gives a text
Embed(title, content) ==
    (CHOOSE d \in DocInputs : d.title = title /\ d.content = content).embedding

\* what generateEmbedding gives for a document: it fails, or the embedding
EmbeddingOutcomes(title, content) ==
    { Failed, [failed |-> FALSE, embedding |-> Embed(title, content)] }

getAllDocuments == OrderByCreatedAtDesc(documents)

\* the calls of insertDocument that are at their await
PendingInserts ==
    Cardinality({ k \in 1..Len(calls) :
                    calls[k].op = "insertDocument" /\ calls[k].at # "done" })

\* a store as connectDB creates it: the two tables, empty
InitCrud ==
    /\ documents = <<>>
    /\ embeddings = <<>>
    /\ pc = "idle"
    /\ result = [op |-> "none"]
    /\ sequence = 0
    /\ chatService = Absent
    /\ calls = <<>>

\* insertDocument(title, content) up to its await of generateEmbedding
InsertDocumentCall ==
    /\ pc = "idle"
    /\ Len(calls) < MaxCalls
    /\ sequence + PendingInserts < MaxDocs
    /\ \E d \in CrudInputs :
          calls' = Append(calls,
                          [op |-> "insertDocument", title |-> d.title,
                           content |-> d.content,
                           at |-> "generateEmbedding"])
    /\ UNCHANGED <<documents, embeddings, pc, result, sequence, chatService>>

\* insertDocument from its await on: the error of generateEmbedding is
\* thrown on, or the transaction inserts the document and its embedding
InsertDocumentResume ==
    /\ pc = "idle"
    /\ \E k \in 1..Len(calls) :
          /\ calls[k].op = "insertDocument"
          /\ calls[k].at = "generateEmbedding"
          /\ \E generated \in
                   EmbeddingOutcomes(calls[k].title, calls[k].content) :
                IF generated.failed
                THEN /\ calls' = [calls EXCEPT ![k] =
                                     [op |-> "insertDocument",
                                      at |-> "done", ret |-> Thrown]]
                     /\ UNCHANGED <<documents, embeddings, sequence>>
                ELSE \E created_at \in CurrentTimestamps :
                        LET ins == insertDocumentWithEmbedding(
                                       calls[k].title, calls[k].content,
                                       generated.embedding, created_at)
                        IN  /\ documents' = ins.documents
                            /\ embeddings' = ins.embeddings
                            /\ sequence' = ins.docId
                            /\ calls' = [calls EXCEPT ![k] =
                                            [op |-> "insertDocument",
                                             at |-> "done",
                                             ret |-> Returned(ins.docId)]]
    /\ UNCHANGED <<pc, result, chatService>>

\* insertDocument(title, content, embedding) of the compiled CrudRepository
InsertDocumentWithEmbedding ==
    /\ pc = "idle"
    /\ sequence + PendingInserts < MaxDocs
    /\ \E d \in CrudInputs : \E created_at \in CurrentTimestamps :
          LET ins == insertDocumentWithEmbedding(d.title, d.content,
                                                 d.embedding, created_at)
          IN  /\ documents' = ins.documents
              /\ embeddings' = ins.embeddings
              /\ sequence' = ins.docId
              /\ result' = [op |-> "insertDocument", title |-> d.title,
                            content |-> d.content,
                            ret |-> Returned(ins.docId)]
    /\ pc' = "returned"
    /\ UNCHANGED <<chatService, calls>>

\* deleteDocument with the foreign keys left off: the embedding stays
DeleteDocumentWithoutCascade ==
    /\ pc = "idle"
    /\ \E id \in 1..MaxDocs :
          /\ documents' = SelectSeq(documents, LAMBDA d : d.id # id)
          /\ result' = [op |-> "deleteDocument", id |-> id,
                        ret |-> Returned(\E i \in 1..Len(documents) :
                                             documents[i].id = id)]
    /\ pc' = "returned"
    /\ UNCHANGED <<embeddings, service>>

\* deleteDocument(id): foreign keys are on, and the DELETE takes the
\* embeddings of the document with it (ON DELETE CASCADE)
DeleteDocument ==
    /\ pc = "idle"
    /\ \E id \in 1..MaxDocs :
          /\ documents' = SelectSeq(documents, LAMBDA d : d.id # id)
          /\ embeddings' = SelectSeq(embeddings,
                                     LAMBDA e : e.document_id # id)
          /\ result' = [op |-> "deleteDocument", id |-> id,
                        ret |-> Returned(\E i \in 1..Len(documents) :
                                             documents[i].id = id)]
    /\ pc' = "returned"
    /\ UNCHANGED service

\* the titles and contents of an updateDocument call: undefined or a text
NewTitles == { Absent, Some(<<"a", "i">>) }
NewContents == { Absent, Some(<<"m", "l">>) }

\* updateDocument(id, title, content)
UpdateDocument ==
    /\ pc = "idle"
    /\ \E id \in 1..MaxDocs : \E title \in NewTitles :
       \E content \in NewContents :
          IF ~IsPresent(title) /\ ~IsPresent(content)
          THEN /\ result' = [op |-> "updateDocument", id |-> id,
                             title |-> title, content |-> content,
                             ret |-> Returned(FALSE)]
               /\ documents' = documents
          ELSE \E created_at \in CurrentTimestamps :
                  /\ documents' =
                         [i \in 1..Len(documents) |->
                             IF documents[i].id # id THEN documents[i]
                             ELSE [id |-> id,
                                   title |-> IF IsPresent(title)
                                             THEN Get(title)
                                             ELSE documents[i].title,
                                   content |-> IF IsPresent(content)
                                               THEN Get(content)
                                               ELSE documents[i].content,
                                   created_at |-> created_at]]
                  /\ result' = [op |-> "updateDocument", id |-> id,
                                title |-> title, content |-> content,
                                ret |-> Returned(
                                    \E i \in 1..Len(documents) :
                                        documents[i].id = id)]
    /\ pc' = "returned"
    /\ UNCHANGED <<embeddings, service>>

\* UPDATE embeddings SET embedding = ? WHERE document_id = ?
updateEmbedding(documentId, newEmbedding) ==
    [embeddings |->
         [k \in 1..Len(embeddings) |->
             IF embeddings[k].document_id # documentId THEN embeddings[k]
             ELSE [document_id |-> documentId,
                   embedding |-> JSONStringify(newEmbedding)]],
     changed |-> \E k \in 1..Len(embeddings) :
                     embeddings[k].document_id = documentId]

UpdateEmbedding ==
    /\ pc = "idle"
    /\ \E id \in 1..MaxDocs : \E newEmbedding \in { <<SCALE, 0>> } :
          LET updated == updateEmbedding(id, newEmbedding)
          IN  /\ embeddings' = updated.embeddings
              /\ result' = [op |-> "updateEmbedding", documentId |-> id,
                            newEmbedding |-> newEmbedding,
                            ret |-> Returned(updated.changed)]
    /\ pc' = "returned"
    /\ UNCHANGED <<documents, service>>

\* ------------------------------- OfflineChatService.migrateEmbeddings
\* the texts of the documents a migration runs over
MigrateInputs == { d \in DocInputs : d.title = <<"d", "b">> }

\* the embeddings as insertDocument wrote them for the documents
EmbeddingsInsertedFor(docs) ==
    [i \in 1..Len(docs) |->
        [document_id |-> docs[i].id,
         embedding |-> JSONStringify(Embed(docs[i].title,
                                           docs[i].content))]]

\* a store of fewer than MaxDocs documents inserted with their embeddings,
\* and a chat service on it
InitMigrate ==
    /\ \E n \in 0..(MaxDocs - 1) : \E ins \in [1..n -> MigrateInputs] :
          /\ documents = DocumentsOf(ins, TRUE)
          /\ embeddings = EmbeddingsInserted(ins)
    /\ pc = "idle"
    /\ result = [op |-> "none"]
    /\ sequence = Len(documents)
    /\ chatService = Some(NewOfflineChatService)
    /\ calls = <<>>

\* migrateEmbeddings() up to its first await: it reads the documents,
\* deletes every embedding and asks for the embedding of the first document
MigrateEmbeddingsCall ==
    /\ pc = "idle"
    /\ Len(calls) < MaxCalls
    /\ LET docs == getAllDocuments
       IN  IF Len(docs) = 0
           THEN /\ calls' = Append(calls, [op |-> "migrateEmbeddings",
                                           at |-> "done", ret |-> TRUE])
                /\ embeddings' = <<>>
           ELSE /\ calls' = Append(calls,
                                   [op |-> "migrateEmbeddings",
                                    documents |-> docs, i |-> 0,
                                    at |-> "generateEmbedding"])
                /\ embeddings' = <<>>
    /\ UNCHANGED <<documents, pc, result, sequence, chatService>>

\* migrateEmbeddings() from an await on: a failure of generateEmbedding or
\* of the INSERT (the document is gone and foreign keys are on) ends the
\* call with false; otherwise the embedding of documents[i] is inserted and
\* the loop goes to the next document or ends with true
MigrateEmbeddingsResume ==
    /\ pc = "idle"
    /\ \E k \in 1..Len(calls) :
          /\ calls[k].op = "migrateEmbeddings"
          /\ calls[k].at = "generateEmbedding"
          /\ LET doc == calls[k].documents[calls[k].i + 1]
             IN  \E generated \in EmbeddingOutcomes(doc.title, doc.content) :
                    IF \/ generated.failed
                       \/ \A j \in 1..Len(documents) : documents[j].id # doc.id
                    THEN /\ calls' = [calls EXCEPT ![k] =
                                         [op |-> "migrateEmbeddings",
                                          at |-> "done", ret |-> FALSE]]
                         /\ embeddings' = embeddings
                    ELSE /\ embeddings' =
                                Append(embeddings,
                                       [document_id |-> doc.id,
                                        embedding |->
                                            JSONStringify(
                                                generated.embedding)])
                         /\ calls' = [calls EXCEPT ![k] =
                                IF calls[k].i + 1 < Len(calls[k].documents)
                                THEN [calls[k] EXCEPT !.i = @ + 1]
                                ELSE [op |-> "migrateEmbeddings",
                                      at |-> "done", ret |-> TRUE]]
    /\ UNCHANGED <<documents, pc, result, sequence, chatService>>

\* ------------------------------------------- OfflineEmbeddingMigration
\* what generateDocumentEmbedding gives: it fails, or the embedding of the
\* offline model
OfflineOutcomes ==
    { Failed, [failed |-> FALSE, embedding |-> <<0, SCALE, 0>>] }

\* the batch sizes of a batchMigrateDocuments call: 1, 2 and the default 5
BatchSizes == { 1, 2, 5 }

\* a store of up to MaxDocs documents, inserted with their embeddings, or
\* left by a migrateEmbeddings that stopped after its first row or before it
InitOffline ==
    /\ \E n \in 0..MaxDocs : \E ins \in [1..n -> CrudInputs] :
          /\ documents = DocumentsOf(ins, TRUE)
          /\ \/ embeddings = EmbeddingsInserted(ins)
             \/ embeddings = EmbeddingsMigrated(ins, Min(n, 1))
             \/ embeddings = EmbeddingsMigrated(ins, 0)
    /\ pc = "idle"
    /\ result = [op |-> "none"]
    /\ sequence = Len(documents)
    /\ chatService = Absent
    /\ calls = <<>>

\* every call made is done
AllDone == \A k \in 1..Len(calls) : calls[k].at = "done"

\* migrateExistingDocuments(crudRepo) up to its await of checkReadiness
MigrateExistingDocumentsCall ==
    /\ pc = "idle"
    /\ Len(calls) < MaxCalls
    /\ AllDone
    /\ calls' = Append(calls, [op |-> "migrateExistingDocuments",
                               batchSize |-> 1, at |-> "checkReadiness"])
    /\ UNCHANGED <<documents, embeddings, pc, result, sequence, chatService>>

\* batchMigrateDocuments(crudRepo, batchSize) up to its await of
\* checkReadiness
BatchMigrateDocumentsCall ==
    /\ pc = "idle"
    /\ Len(calls) < MaxCalls
    /\ AllDone
    /\ \E batchSize \in BatchSizes :
          calls' = Append(calls, [op |-> "batchMigrateDocuments",
                                  batchSize |-> batchSize,
                                  at |-> "checkReadiness"])
    /\ UNCHANGED <<documents, embeddings, pc, result, sequence, chatService>>

\* the return of a migration
Finish(c) ==
    [op |-> c.op, at |-> "done", attempted |-> c.attempted,
     ret |-> Returned([success |-> c.migratedCount > 0,
                       migratedCount |-> c.migratedCount,
                       totalCount |-> Len(c.allDocs),
                       errors |-> c.errors])]

\* the call of generateDocumentEmbedding for a document
Attempt(c, doc) ==
    [c EXCEPT !.at = "generateDocumentEmbedding",
              !.attempted = Append(@, doc.id)]

\* the loop of migrateExistingDocuments that ends at the first error
ExistingLoopUntilError(c) ==
    IF c.i < Len(c.allDocs) /\ Len(c.errors) = 0
    THEN Attempt(c, c.allDocs[c.i + 1])
    ELSE Finish(c)

\* the loop of migrateExistingDocuments at its test of i
ExistingLoop(c) ==
    IF c.i < Len(c.allDocs)
    THEN Attempt(c, c.allDocs[c.i + 1])
    ELSE Finish(c)

\* allDocs.slice(i, i + batchSize)
Batch(c) ==
    SubSeq(c.allDocs, c.i + 1, Min(c.i + c.batchSize, Len(c.allDocs)))

\* the loop over the batches at its test of i
BatchLoop(c) ==
    IF c.i < Len(c.allDocs)
    THEN Attempt([c EXCEPT !.j = 0], c.allDocs[c.i + 1])
    ELSE Finish(c)

\* the loop over a batch after its document j: the next document, or the
\* rest before the next batch, or the end of the batches
BatchNext(c) ==
    IF c.j + 1 < Len(Batch(c))
    THEN Attempt([c EXCEPT !.j = @ + 1], Batch(c)[c.j + 2])
    ELSE IF c.i + c.batchSize < Len(c.allDocs)
    THEN [c EXCEPT !.at = "rest"]
    ELSE BatchLoop([c EXCEPT !.i = @ + c.batchSize])

\* checkReadiness has answered: the call throws when the service is not
\* ready, and reads the documents and enters its loop when it is
CheckReadinessResume ==
    /\ pc = "idle"
    /\ \E k \in 1..Len(calls) :
          /\ calls[k].at = "checkReadiness"
          /\ \E ready \in BOOLEAN :
                calls' = [calls EXCEPT ![k] =
                    IF ~ready
                    THEN [op |-> calls[k].op, at |-> "done",
                          attempted |-> <<>>, ret |-> Thrown]
                    ELSE LET c == [op |-> calls[k].op,
                                   batchSize |-> calls[k].batchSize,
                                   allDocs |-> getAllDocuments,
                                   i |-> 0, j |-> 0,
                                   migratedCount |-> 0, errors |-> <<>>,
                                   attempted |-> <<>>,
                                   at |-> "getAllDocuments"]
                         IN  IF calls[k].op = "migrateExistingDocuments"
                             THEN ExistingLoop(c)
                             ELSE BatchLoop(c)]
    /\ UNCHANGED <<documents, embeddings, pc, result, sequence, chatService>>

\* the locals after generateDocumentEmbedding has answered for doc: an
\* error when it failed or when updateEmbedding changed no row, one more
\* migrated document otherwise
Counted(c, doc, generated) ==
    IF generated.failed
    THEN [c EXCEPT !.errors = Append(@, <<"Failed to migrate", doc.id>>)]
    ELSE IF updateEmbedding(doc.id, generated.embedding).changed
    THEN [c EXCEPT !.migratedCount = @ + 1]
    ELSE [c EXCEPT !.errors =
                       Append(@, <<"Failed to update embedding", doc.id>>)]

\* the embeddings after generateDocumentEmbedding has answered for doc
Migrated(doc, generated) ==
    IF generated.failed THEN embeddings
    ELSE updateEmbedding(doc.id, generated.embedding).embeddings

\* migrateExistingDocuments from an await in its loop on
MigrateExistingDocumentsResume ==
    /\ pc = "idle"
    /\ \E k \in 1..Len(calls) :
          /\ calls[k].op = "migrateExistingDocuments"
          /\ \/ /\ calls[k].at = "generateDocumentEmbedding"
                /\ LET c == calls[k]
                       doc == c.allDocs[c.i + 1]
                   IN  \E generated \in OfflineOutcomes :
                          /\ embeddings' = Migrated(doc, generated)
                          /\ calls' = [calls EXCEPT ![k] =
                                 IF /\ ~generated.failed
                                    /\ c.i < Len(c.allDocs) - 1
                                 THEN [Counted(c, doc, generated)
                                          EXCEPT !.at = "delay"]
                                 ELSE ExistingLoop(
                                          [Counted(c, doc, generated)
                                              EXCEPT !.i = @ + 1])]
             \/ /\ calls[k].at = "delay"
                /\ embeddings' = embeddings
                /\ calls' = [calls EXCEPT ![k] =
                                ExistingLoop([calls[k] EXCEPT !.i = @ + 1])]
    /\ UNCHANGED <<documents, pc, result, sequence, chatService>>

\* batchMigrateDocuments from an await in its loops on
BatchMigrateDocumentsResume ==
    /\ pc = "idle"
    /\ \E k \in 1..Len(calls) :
          /\ calls[k].op = "batchMigrateDocuments"
          /\ \/ /\ calls[k].at = "generateDocumentEmbedding"
                /\ LET c == calls[k]
                       doc == Batch(c)[c.j + 1]
                   IN  \E generated \in OfflineOutcomes :
                          /\ embeddings' = Migrated(doc, generated)
                          /\ calls' = [calls EXCEPT ![k] =
                                 BatchNext(Counted(c, doc, generated))]
             \/ /\ calls[k].at = "rest"
                /\ embeddings' = embeddings
                /\ calls' = [calls EXCEPT ![k] =
                                BatchLoop([calls[k] EXCEPT
                                              !.i = @ + calls[k].batchSize])]
    /\ UNCHANGED <<documents, pc, result, sequence, chatService>>

\* the caller has consumed the result and is ready for its next call
Return ==
    /\ pc = "returned"
    /\ pc' = "idle"
    /\ result' = [op |-> "none"]
    /\ UNCHANGED <<documents, embeddings, service>>

Next ==
    \/ CosineSimilarity
    \/ EuclideanDistance
    \/ SearchSimilar
    \/ SearchSimilarAgain
    \/ SearchByText
    \/ SearchByTextAdvanced
    \/ HybridSearch
    \/ SearchWithClustering
    \/ SearchWithFacets
    \/ Initialize
    \/ Chat
    \/ SearchDatabase
    \/ AddDocument
    \/ GetHistory
    \/ ClearHistory
    \/ IsReady
    \/ InsertDocumentCall
    \/ InsertDocumentResume
    \/ InsertDocumentWithEmbedding
    \/ DeleteDocument
    \/ UpdateDocument
    \/ UpdateEmbedding
    \/ MigrateEmbeddingsCall
    \/ MigrateEmbeddingsResume
    \/ MigrateExistingDocumentsCall
    \/ BatchMigrateDocumentsCall
    \/ CheckReadinessResume
    \/ MigrateExistingDocumentsResume
    \/ BatchMigrateDocumentsResume
    \/ Return

Spec == Init /\ [][Next]_vars

\* The calls only read the store and the caller takes one result at a time,
\* so the calls of one component reach the same results on their own as
\* among the calls of the others.

\* VectorMath and SimilarityRanker
NextSimilar ==
    \/ CosineSimilarity
    \/ EuclideanDistance
    \/ SearchSimilar
    \/ SearchSimilarAgain
    \/ Return

SpecSimilar == Init /\ [][NextSimilar]_vars

\* TextMatcher and HybridFusion
NextHybrid ==
    \/ SearchByText
    \/ SearchByTextAdvanced
    \/ HybridSearch
    \/ Return

SpecHybrid == Init /\ [][NextHybrid]_vars

\* every search operation of the SearchRepository
NextSearch ==
    \/ SearchSimilar
    \/ SearchByText
    \/ SearchByTextAdvanced
    \/ HybridSearch
    \/ SearchWithClustering
    \/ SearchWithFacets
    \/ Return

SpecSearch == InitSearch /\ [][NextSearch]_vars

\* the OfflineLLMAPI and its OfflineChatService, called by one caller that
\* awaits every call
NextService ==
    \/ Initialize
    \/ Chat
    \/ SearchDatabase
    \/ AddDocument
    \/ GetHistory
    \/ ClearHistory
    \/ IsReady
    \/ Return

SpecService == InitService /\ [][NextService]_vars

\* the CrudRepository on a new store
NextCrud ==
    \/ InsertDocumentCall
    \/ InsertDocumentResume
    \/ InsertDocumentWithEmbedding
    \/ DeleteDocument
    \/ UpdateDocument
    \/ UpdateEmbedding
    \/ Return

SpecCrud == InitCrud /\ [][NextCrud]_vars

\* migrations of the embeddings among inserts, each call going on from its
\* await when the embedding model has answered
NextMigrate ==
    \/ InsertDocumentCall
    \/ InsertDocumentResume
    \/ MigrateEmbeddingsCall
    \/ MigrateEmbeddingsResume

SpecMigrate == InitMigrate /\ [][NextMigrate]_vars

\* the migrations of the OfflineEmbeddingMigration, run one after the other
NextOffline ==
    \/ MigrateExistingDocumentsCall
    \/ BatchMigrateDocumentsCall
    \/ CheckReadinessResume
    \/ MigrateExistingDocumentsResume
    \/ BatchMigrateDocumentsResume

SpecOffline == InitOffline /\ [][NextOffline]_vars

\* A call at an await goes on: the request to the embedding service is
\* answered or fails, and the timers fire.
SpecOfflineLive ==
    /\ SpecOffline
    /\ WF_vars(CheckReadinessResume)
    /\ WF_vars(MigrateExistingDocumentsResume)
    /\ WF_vars(BatchMigrateDocumentsResume)

\* ClusterBuilder and FacetSummarizer
NextBulk ==
    \/ SearchWithClustering
    \/ SearchWithFacets
    \/ Return

SpecBulk == InitBulk /\ [][NextBulk]_vars

\* ------------------------------------------------------------ properties
\* a searchSimilar call has returned normally
SimilarReturned ==
    /\ pc = "returned"
    /\ result.op = "searchSimilar"
    /\ ~result.ret.threw

\* a hybridSearch call has returned normally
HybridReturned ==
    /\ pc = "returned"
    /\ result.op = "hybridSearch"
    /\ ~result.ret.threw

\* the scored candidates of a searchSimilar call: the rows the store
\* returns for its date filter, each with its comparison to the query
Candidates(queryEmbedding, useCosineSimilarity, filters) ==
    LET rows == AllDocs(filters)
    IN  [i \in 1..Len(rows) |->
            ScoreDoc(rows[i], queryEmbedding, useCosineSimilarity).value]

\* the embedding stored for a document
StoredEmbedding(id) ==
    JSONParse(embeddings[CHOOSE k \in 1..Len(embeddings) :
                             embeddings[k].document_id = id].embedding)

Ids(rows) == {rows[i].id : i \in 1..Len(rows)}

\* C1 as stated: searchSimilar returns at most `limit` results, and at most
\* min(limit, filters.maxResults) when maxResults is supplied.
C1_AtMostLimit ==
    SimilarReturned =>
        LET n == Len(result.ret.value)
            m == result.filters.maxResults
        IN  /\ n <= result.limit
            /\ IsPresent(m) => n <= Min(result.limit, Get(m))

\* C1 amended: a supplied non-zero maxResults replaces `limit` as the cap.
\* searchSimilar returns at most maxResults results when maxResults is
\* positive, at most `limit` when it is absent or 0, and for a negative
\* maxResults the candidates without the last |maxResults| of them.
C1_CapIsMaxResultsOrLimit ==
    SimilarReturned =>
        LET n == Len(result.ret.value)
            m == result.filters.maxResults
            candidates == Len(AllDocs(result.filters))
        IN  /\ (~IsPresent(m) \/ Get(m) = 0) => n <= result.limit
            /\ (IsPresent(m) /\ Get(m) > 0) => n <= Get(m)
            /\ (IsPresent(m) /\ Get(m) < 0) =>
                   n <= Max(candidates + Get(m), 0)

\* a call whose maxResults is above its limit returned more than `limit`
C1_Witness ==
    /\ SimilarReturned
    /\ IsPresent(result.filters.maxResults)
    /\ Get(result.filters.maxResults) > result.limit
    /\ Len(result.ret.value) > result.limit

C3_TiesByIdAscending ==
    SimilarReturned =>
        LET v == result.ret.value
        IN  \A i \in 1..Len(v) : \A j \in 1..Len(v) :
                (i < j /\ v[i].similarity = v[j].similarity) =>
                    v[i].id < v[j].id

\* C3 amended: results of equal similarity are in the order in which the
\* store returned their rows (the sort is stable and has no tie-break on
\* the id), so their order and the set cut off by the limit follow the
\* store's row order.
C3_TiesKeepStoreOrder ==
    SimilarReturned =>
        LET v == result.ret.value
            rows == AllDocs(result.filters)
            at(id) == CHOOSE k \in 1..Len(rows) : rows[k].id = id
        IN  \A i \in 1..Len(v) : \A j \in 1..Len(v) :
                (i < j /\ v[i].similarity = v[j].similarity) =>
                    at(v[i].id) < at(v[j].id)

\* two results of equal similarity, the higher id first
C3_Witness ==
    /\ SimilarReturned
    /\ \E i \in 1..Len(result.ret.value) :
       \E j \in 1..Len(result.ret.value) :
          /\ i < j
          /\ result.ret.value[i].similarity = result.ret.value[j].similarity
          /\ result.ret.value[i].id > result.ret.value[j].id

\* C4: whenever filters.minSimilarity is supplied, 0 and negative values
\* included, every result has similarity >= minSimilarity, and a
\* minSimilarity of 1.1 gives no result.
C4_MinSimilarityHolds ==
    (SimilarReturned /\ IsPresent(result.filters.minSimilarity)) =>
        LET v == result.ret.value
            min == Get(result.filters.minSimilarity)
        IN  /\ \A i \in 1..Len(v) : v[i].similarity >= min
            /\ min > SCALE => v = <<>>

\* C5: cosineSimilarity and euclideanDistance throw for vectors of unequal
\* length, and searchSimilar throws, returning nothing, whenever the
\* stored embedding of a candidate differs in length from the query.
C5_DimensionMismatchThrows ==
    /\ (/\ pc = "returned"
        /\ result.op \in {"cosineSimilarity", "euclideanDistance"}
        /\ Len(result.vecA) # Len(result.vecB)) => result.ret.threw
    /\ (/\ pc = "returned"
        /\ result.op = "searchSimilar"
        /\ \E i \in 1..Len(AllDocs(result.filters)) :
              Len(JSONParse(AllDocs(result.filters)[i].embedding))
                  # Len(result.queryEmbedding))
       => (result.ret.threw /\ result.ret.value = <<>>)

\* searchSimilar threw over a corpus in which one candidate has the length
\* of the query and another has not
C5_Witness ==
    /\ pc = "returned"
    /\ result.op = "searchSimilar"
    /\ result.ret.threw
    /\ \E i \in 1..Len(embeddings) : \E j \in 1..Len(embeddings) :
          /\ Len(JSONParse(embeddings[i].embedding))
                 = Len(result.queryEmbedding)
          /\ Len(JSONParse(embeddings[j].embedding))
                 # Len(result.queryEmbedding)

AllZero(vec) == \A i \in 1..Len(vec) : vec[i] = 0

\* C6: cosineSimilarity of two vectors of equal length, one of them of
\* magnitude zero, returns 0; also for two zero and for two empty vectors.
C6_ZeroMagnitudeGivesZero ==
    (/\ pc = "returned"
     /\ result.op = "cosineSimilarity"
     /\ Len(result.vecA) = Len(result.vecB)
     /\ (AllZero(result.vecA) \/ AllZero(result.vecB)))
    => result.ret = Returned(0)

\* cosineSimilarity of a zero vector and a vector that is not zero
C6_Witness ==
    /\ pc = "returned"
    /\ result.op = "cosineSimilarity"
    /\ result.vecA = <<0, 0>>
    /\ result.vecB = <<SCALE, 0>>
    /\ result.ret = Returned(0)

\* C7: every result of searchSimilar has, in cosine mode, the cosine
\* similarity of the query and the document's stored embedding and
\* distance = 1 - similarity, and in Euclidean mode their Euclidean
\* distance and similarity = 1 / (1 + distance).
C7_SimilarityAndDistanceAgree ==
    SimilarReturned =>
        \A i \in 1..Len(result.ret.value) :
            LET r == result.ret.value[i]
                q == result.queryEmbedding
            IN  IF result.useCosineSimilarity
                THEN /\ r.similarity =
                            cosineSimilarity(q, StoredEmbedding(r.id)).value
                     /\ r.distance = SCALE - r.similarity
                ELSE /\ r.distance =
                            euclideanDistance(q, StoredEmbedding(r.id)).value
                     /\ r.similarity = Div(SCALE, SCALE + r.distance)

\* a result in Euclidean mode at a distance above 1
C7_Witness ==
    /\ SimilarReturned
    /\ ~result.useCosineSimilarity
    /\ \E i \in 1..Len(result.ret.value) :
          /\ result.ret.value[i].distance > SCALE
          /\ result.ret.value[i].similarity < SCALE \div 2

C9_TotalIsSumOfScores ==
    HybridReturned =>
        \A i \in 1..Len(result.ret.value) :
            result.ret.value[i].totalScore =
                result.ret.value[i].textScore
                    + result.ret.value[i].semanticScore

\* a result holding a document found by the text search only and a
\* document found by both searches
C9_Witness ==
    /\ HybridReturned
    /\ \E i \in 1..Len(result.ret.value) :
          /\ result.ret.value[i].textScore > 0
          /\ result.ret.value[i].id
                 \notin {embeddings[k].document_id : k \in 1..Len(embeddings)}
    /\ \E i \in 1..Len(result.ret.value) :
          /\ result.ret.value[i].textScore > 0
          /\ result.ret.value[i].semanticScore > 0

\* C10: in every entry of a hybridSearch result textScore is textWeight
\* when the document is among searchByText(queryText, limit * 2) and 0
\* otherwise, and semanticScore is similarity * semanticWeight when it is
\* among searchSimilar(queryVector, limit * 2) and 0 otherwise.
C10_FlatTextAndWeightedSemantic ==
    HybridReturned =>
        LET textResults == searchByText(result.query, result.limit * 2)
            semanticResults ==
                searchSimilar(result.queryEmbedding, result.limit * 2,
                              TRUE, NoFilters).value
        IN  \A i \in 1..Len(result.ret.value) :
                LET e == result.ret.value[i]
                IN  /\ e.textScore = IF e.id \in Ids(textResults)
                                     THEN result.textWeight ELSE 0
                    /\ IF e.id \in Ids(semanticResults)
                       THEN \E k \in 1..Len(semanticResults) :
                               /\ semanticResults[k].id = e.id
                               /\ e.semanticScore =
                                      Mul(semanticResults[k].similarity,
                                          result.semanticWeight)
                       ELSE e.semanticScore = 0

\* a result holding a document the text search found and a document only
\* the similarity search found
C10_Witness ==
    /\ HybridReturned
    /\ result.textWeight > 0
    /\ \E i \in 1..Len(result.ret.value) :
          /\ result.ret.value[i].id
                 \in Ids(searchByText(result.query, result.limit * 2))
          /\ result.ret.value[i].textScore = result.textWeight
    /\ \E i \in 1..Len(result.ret.value) :
          /\ result.ret.value[i].textScore = 0
          /\ result.ret.value[i].semanticScore > 0

\* C11: hybridSearch returns at most `limit` entries, in order of
\* non-increasing totalScore, and no document id twice, also when the text
\* search and the similarity search both found the document.
C11_HybridCappedRankedUnique ==
    HybridReturned =>
        LET v == result.ret.value
        IN  /\ Len(v) <= result.limit
            /\ \A i \in 1..Len(v) : \A j \in 1..Len(v) :
                   i < j => /\ v[i].totalScore >= v[j].totalScore
                            /\ v[i].id # v[j].id

\* a result cut to `limit` entries of unequal score, one of them a document
\* that both searches found
C11_Witness ==
    /\ HybridReturned
    /\ Len(result.ret.value) = result.limit
    /\ Len(documents) > result.limit
    /\ result.limit >= 2
    /\ result.ret.value[1].totalScore > result.ret.value[2].totalScore
    /\ \E i \in 1..Len(result.ret.value) :
          /\ result.ret.value[i].id
                 \in Ids(searchByText(result.query, result.limit * 2))
          /\ result.ret.value[i].id
                 \in Ids(searchSimilar(result.queryEmbedding, result.limit * 2,
                                       TRUE, NoFilters).value)

\* the ids of a result list, in order
IdSeq(rows) == [i \in 1..Len(rows) |-> rows[i].id]

\* a hybridSearch call with textWeight 0 and semanticWeight 1 has returned
SemanticOnlyReturned ==
    /\ HybridReturned
    /\ result.textWeight = 0
    /\ result.semanticWeight = SCALE

\* C12 as stated: hybridSearch with textWeight 0 and semanticWeight 1
\* returns the documents of searchSimilar(queryVector, limit) in the same
\* order, each with totalScore equal to its similarity.
C12_SameRankingAsSearchSimilar ==
    SemanticOnlyReturned =>
        LET v == result.ret.value
            alone == searchSimilar(result.queryEmbedding, result.limit,
                                   TRUE, NoFilters).value
        IN  /\ IdSeq(v) = IdSeq(alone)
            /\ \A i \in 1..Len(v) : v[i].totalScore = alone[i].similarity

\* C12 amended: with textWeight 0 and semanticWeight 1 an entry has
\* totalScore equal to its similarity when it is among
\* searchSimilar(queryVector, limit * 2) and totalScore 0 when only the text
\* search found it.  When every text match is among those similarity
\* results, the scores are those of searchSimilar(queryVector, limit) in
\* the same order (documents of equal score may come in another order:
\* text matches first, newest first); when the text search matches nothing
\* the documents are in the same order too.
C12_SameScoresAsSearchSimilar ==
    SemanticOnlyReturned =>
        LET v == result.ret.value
            textResults == searchByText(result.query, result.limit * 2)
            semanticResults ==
                searchSimilar(result.queryEmbedding, result.limit * 2,
                              TRUE, NoFilters).value
            alone == searchSimilar(result.queryEmbedding, result.limit,
                                   TRUE, NoFilters).value
        IN  /\ \A i \in 1..Len(v) :
                   IF v[i].id \in Ids(semanticResults)
                   THEN \E k \in 1..Len(semanticResults) :
                           /\ semanticResults[k].id = v[i].id
                           /\ v[i].similarity = semanticResults[k].similarity
                           /\ v[i].totalScore = v[i].similarity
                   ELSE v[i].totalScore = 0
            /\ Ids(textResults) \subseteq Ids(semanticResults) =>
                   /\ Len(v) = Len(alone)
                   /\ \A i \in 1..Len(v) :
                          v[i].totalScore = alone[i].similarity
            /\ textResults = <<>> => IdSeq(v) = IdSeq(alone)

\* a result with the scores of searchSimilar alone whose documents are in
\* another order, the first with totalScore 1.0
C12_Witness ==
    /\ SemanticOnlyReturned
    /\ Len(result.ret.value) >= 2
    /\ result.ret.value[1].totalScore = SCALE
    /\ LET alone == searchSimilar(result.queryEmbedding, result.limit,
                                  TRUE, NoFilters).value
       IN  /\ Len(alone) = Len(result.ret.value)
           /\ \A i \in 1..Len(alone) :
                  result.ret.value[i].totalScore = alone[i].similarity
           /\ IdSeq(result.ret.value) # IdSeq(alone)

\* a searchWithClustering call has returned or thrown
ClusteringCalled ==
    /\ pc = "returned"
    /\ result.op = "searchWithClustering"

\* the ranked candidates of the searchWithClustering call: the top
\* 3 * limit similarity results
Ranked ==
    searchSimilar(result.queryEmbedding, result.limit * 3, TRUE, NoFilters)

\* the cosine similarity of the stored embeddings of two documents
PairSimilarity(idA, idB) ==
    cosineSimilarity(StoredEmbedding(idA), StoredEmbedding(idB)).value

\* the ids of the documents of the clusters before cluster c
EarlierIds(clusters, c) ==
    UNION {Ids(clusters[b].documents) : b \in 1..(c - 1)}

\* C13: searchWithClustering over candidates it could rank returns its
\* clusters, and in them a candidate other than the seed is a member of a
\* cluster exactly if it was in no earlier cluster and its cosine
\* similarity to the seed is above similarityThreshold (equal does not
\* qualify); the other members are not consulted.
C13_SeedToCandidateMembership ==
    (ClusteringCalled /\ ~Ranked.threw) =>
        /\ ~result.ret.threw
        /\ LET clusters == result.ret.value
               candidates == Ranked.value
           IN  \A c \in 1..Len(clusters) : \A k \in 1..Len(candidates) :
                   LET seed == clusters[c].documents[1]
                       d == candidates[k]
                   IN  d.id # seed.id =>
                           (d.id \in Ids(clusters[c].documents)
                            <=> /\ d.id \notin EarlierIds(clusters, c)
                                /\ PairSimilarity(seed.id, d.id)
                                       > result.similarityThreshold)

\* C14: searchWithClustering over candidates it could rank returns at most
\* `limit` clusters of documents among the top 3 * limit similarity
\* results, no document in two clusters or twice in one, the cluster ids
\* 0, 1, 2, ... with the seeds (the first members) in ranked order, and
\* every candidate in a cluster when fewer than `limit` clusters are
\* returned.
C14_ClustersPartitionCandidates ==
    (ClusteringCalled /\ ~Ranked.threw) =>
        /\ ~result.ret.threw
        /\ LET clusters == result.ret.value
               candidates == Ranked.value
               at(id) == CHOOSE k \in 1..Len(candidates) :
                             candidates[k].id = id
           IN  /\ Len(clusters) <= result.limit
               /\ \A c \in 1..Len(clusters) :
                      /\ clusters[c].cluster = c - 1
                      /\ Len(clusters[c].documents) >= 1
                      /\ Ids(clusters[c].documents) \subseteq Ids(candidates)
                      /\ Cardinality(Ids(clusters[c].documents))
                             = Len(clusters[c].documents)
                      /\ Ids(clusters[c].documents)
                             \cap EarlierIds(clusters, c) = {}
                      /\ c > 1 => at(clusters[c - 1].documents[1].id)
                                      < at(clusters[c].documents[1].id)
               /\ Len(clusters) < result.limit =>
                      Ids(candidates) = EarlierIds(clusters, Len(clusters) + 1)

\* C15: when there are two or more candidates and no two of them reach the
\* similarity threshold, searchWithClustering returns without an error one
\* cluster of one document per candidate, in ranked order (`limit` of them
\* at most).
C15_SingletonsWhenNothingSimilar ==
    (/\ ClusteringCalled
     /\ ~Ranked.threw
     /\ Len(Ranked.value) >= 2
     /\ \A i \in 1..Len(Ranked.value) : \A j \in 1..Len(Ranked.value) :
            i # j => PairSimilarity(Ranked.value[i].id, Ranked.value[j].id)
                         < result.similarityThreshold)
    => /\ ~result.ret.threw
       /\ Len(result.ret.value) = Min(result.limit, Len(Ranked.value))
       /\ \A c \in 1..Len(result.ret.value) :
              result.ret.value[c].documents = <<Ranked.value[c]>>

\* a searchWithFacets call has returned normally
FacetsReturned ==
    /\ pc = "returned"
    /\ result.op = "searchWithFacets"
    /\ ~result.ret.threw

AgeBand(age) ==
    IF age <= DAY THEN 1
    ELSE IF age <= 7 * DAY THEN 2
    ELSE IF age <= 30 * DAY THEN 3
    ELSE 4

\* C17: searchWithFacets counts every result in one recency band by the
\* time from its created_at to the call: at most 1 day, else at most 7
\* days, else at most 30 days, else older; the four counts sum to the
\* number of results, and `results` is searchSimilar(queryVector, limit).
C17_RecencyBandsByAge ==
    FacetsReturned =>
        LET v == result.ret.value.results
            counts == result.ret.value.timePeriods
        IN  /\ \A b \in 1..4 :
                   counts[b] = Cardinality({i \in 1..Len(v) :
                       AgeBand(result.now - v[i].created_at) = b})
            /\ counts[1] + counts[2] + counts[3] + counts[4] = Len(v)
            /\ v = searchSimilar(result.queryEmbedding, result.limit,
                                 TRUE, NoFilters).value

\* the text contains the term, letters compared without their case
ContainsFolded(text, term) ==
    \E k \in 0..(Len(text) - Len(term)) :
        \A i \in 1..Len(term) : Lower(text[k + i]) = Lower(term[i])

\* the rows are in order of non-increasing created_at
NewestFirst(rows) ==
    \A i \in 1..Len(rows) : \A j \in 1..Len(rows) :
        i < j => rows[i].created_at >= rows[j].created_at

\* C18: searchByText(term, limit) returns at most `limit` documents, each
\* with the term as a substring, without regard to case, of its title or
\* content, newest first; a document with the term that is not returned
\* is no newer than any returned one, and `limit` documents were returned.
C18_ExactSubstringMatches ==
    (pc = "returned" /\ result.op = "searchByText") =>
        LET v == result.ret.value
            has(d) == \/ ContainsFolded(d.title, result.searchTerm)
                      \/ ContainsFolded(d.content, result.searchTerm)
        IN  /\ ~result.ret.threw
            /\ Len(v) <= result.limit
            /\ NewestFirst(v)
            /\ \A i \in 1..Len(v) : has(v[i])
            /\ \A k \in 1..Len(documents) :
                   (has(documents[k]) /\ documents[k].id \notin Ids(v)) =>
                       /\ Len(v) = result.limit
                       /\ \A i \in 1..Len(v) :
                              documents[k].created_at <= v[i].created_at

MalformedRows ==
    {k \in 1..Len(embeddings) : ~IsJSONArrayText(embeddings[k].embedding)}

\* C20: when the text of one stored embedding cannot be decoded and the
\* other embeddings have the length of the query, searchWithClustering and
\* searchWithFacets return instead of throwing, and searchWithFacets
\* returns results for the other documents and none for that one.
C20_BulkSkipsMalformed ==
    (/\ pc = "returned"
     /\ result.op \in {"searchWithClustering", "searchWithFacets"}
     /\ Cardinality(MalformedRows) = 1
     /\ \A k \in 1..Len(embeddings) :
            k \notin MalformedRows =>
                Len(JSONParse(embeddings[k].embedding))
                    = Len(result.queryEmbedding))
    => /\ ~result.ret.threw
       /\ result.op = "searchWithFacets" =>
              /\ \A k \in MalformedRows :
                     embeddings[k].document_id
                         \notin Ids(result.ret.value.results)
              /\ Len(embeddings) > 1 => Len(result.ret.value.results) > 0

\* no row joins a document to an embedding
NoEmbeddedDocument == JoinRows(documents, embeddings) = <<>>

C22_SearchLeavesStoreUnchanged ==
    [][(pc = "idle" /\ pc' = "returned") =>
          /\ documents' = documents
          /\ embeddings' = embeddings
          /\ sequence' = sequence
          /\ chatService' = chatService
          /\ calls' = calls]_vars

\* a search has thrown over a store of two documents or more
C22_Witness ==
    /\ pc = "returned"
    /\ result.op = "searchWithClustering"
    /\ result.ret.threw
    /\ Len(embeddings) >= 2

\* a call of the OfflineLLMAPI returns
Answers(op) == pc = "idle" /\ pc' = "returned" /\ result'.op = op

\* chat went on to its search, and searchSimilar threw in it
MismatchInChat ==
    /\ pc = "returned"
    /\ result.op = "chat"
    /\ isReady
    /\ ~result.generated.failed
    /\ searchSimilar(result.generated.embedding, 5, TRUE, NoFilters).threw

\* C23 as stated: when searchSimilar fails inside OfflineChatService.chat
\* on vectors of unequal length, the caller of chat gets the failure and no
\* normal response.
C23_ChatSurfacesMismatch ==
    MismatchInChat => ~result.ret.success

\* C23: searchSimilar throws on vectors of unequal length and searchDatabase
\* reports it as {success: false, error: 'Vectors must have the same
\* length'}; chat catches it and, when the chat model answers, returns a
\* normal response built from searchByText(userMessage, 3) alone.
C23_MismatchCaughtByChatOnly ==
    /\ (MismatchInChat /\ ~result.answered.failed) =>
          LET history == Get(chatService).conversationHistory
              reply == history[Len(history)]
          IN  /\ result.ret.success
              /\ reply.role = "assistant"
              /\ reply.searchResults =
                     combineResults(<<>>, searchByText(result.message, 3))
              /\ result.ret.sources =
                     [i \in 1..Len(reply.searchResults) |->
                         reply.searchResults[i].title]
    /\ (/\ pc = "returned"
        /\ result.op = "searchDatabase"
        /\ isReady
        /\ ~result.generated.failed
        /\ searchSimilar(result.generated.embedding, result.limit, TRUE,
                         NoFilters).threw)
       => result.ret = [success |-> FALSE, error |-> SameLength]

\* chat has answered from a text match after searchSimilar threw
C23_Witness ==
    /\ MismatchInChat
    /\ result.ret.success
    /\ Len(result.ret.sources) >= 1

\* C28: isReady() is true exactly when an earlier initialize() returned
\* true (each call keeps it so: it is true after a call when it was true
\* before or the call is an initialize() returning true), and while it is
\* false chat, searchDatabase and addDocument answer 'not initialized'.
C28_ReadyIffInitializeSucceeded ==
    [][/\ isReady' <=> (isReady \/ (Answers("initialize") /\ result'.ret))
       /\ ((Answers("chat") \/ Answers("searchDatabase")
            \/ Answers("addDocument")) /\ ~isReady)
          => result'.ret = NotInitialized]_vars

\* the messages are user messages each followed by an assistant reply
Exchanges(history) ==
    /\ Len(history) % 2 = 0
    /\ \A i \in 1..Len(history) :
          history[i].role = IF i % 2 = 1 THEN "user" ELSE "assistant"

\* C29: getHistory() holds no system message and consists of user messages
\* each immediately followed by its assistant reply, and a chat that fails
\* leaves the history as it was.
C29_HistoryOfCompletedExchanges ==
    /\ [](isReady => Exchanges(getHistory(Get(chatService))))
    /\ [][(Answers("chat") /\ isReady /\ ~result'.ret.success) =>
             getHistory(Get(chatService')) = getHistory(Get(chatService))]_vars

\* C30: before initialize() is called, chat, searchDatabase and addDocument
\* return {success: false} with the 'not initialized' message, getHistory
\* returns [] and clearHistory false, and the call leaves the store and the
\* service as they were.
C30_NotInitializedAnswers ==
    [][(pc = "idle" /\ pc' = "returned" /\ ~isReady
        /\ result'.op # "initialize") =>
          /\ UNCHANGED <<documents, embeddings, service>>
          /\ result'.op \in {"chat", "searchDatabase", "addDocument"}
             => result'.ret = NotInitialized
          /\ result'.op = "getHistory" => result'.ret = <<>>
          /\ result'.op = "clearHistory" => result'.ret = FALSE]_vars

\* addDocument has answered before any initialize(), over a store that
\* holds a document
C30_Witness ==
    /\ pc = "returned"
    /\ result.op = "addDocument"
    /\ ~isReady
    /\ Len(documents) = 1
    /\ result.ret = NotInitialized

\* the embedding rows of a document
RowsOf(id) == { k \in 1..Len(embeddings) : embeddings[k].document_id = id }

\* every document has exactly one embedding row
OneEmbeddingEach ==
    \A i \in 1..Len(documents) : Cardinality(RowsOf(documents[i].id)) = 1

\* C24: whatever insertDocument, deleteDocument, updateDocument and
\* updateEmbedding calls were made on a new store, every embedding row
\* references a document of the store and every document has exactly one
\* embedding row.
C24_ReferentialIntegrity ==
    /\ \A k \in 1..Len(embeddings) :
          \E i \in 1..Len(documents) :
              documents[i].id = embeddings[k].document_id
    /\ OneEmbeddingEach
    /\ Len(documents) - Len(embeddings) = 0

\* a document was deleted from among three, and two are left with their
\* embeddings
C24_Witness ==
    /\ pc = "returned"
    /\ result.op = "deleteDocument"
    /\ result.ret.value
    /\ Len(documents) = 2
    /\ Len(embeddings) = 2

\* C25: when migrateEmbeddings returns false, the stored embeddings are the
\* ones of before the call; stated for a migration that is the only call
\* made on the store, whose embeddings were those insertDocument wrote.
C25_FailedMigrationKeepsEmbeddings ==
    (/\ Len(calls) = 1
     /\ calls[1].op = "migrateEmbeddings"
     /\ calls[1].at = "done"
     /\ ~calls[1].ret)
    => /\ embeddings = EmbeddingsInsertedFor(documents)
       /\ Len(searchSimilar(<<SCALE, 0>>, MaxDocs, TRUE, NoFilters).value)
              = Len(documents)

\* every call made is done and has succeeded
AllSucceeded ==
    /\ Len(calls) > 0
    /\ \A k \in 1..Len(calls) :
          /\ calls[k].at = "done"
          /\ IF calls[k].op = "migrateEmbeddings" THEN calls[k].ret
             ELSE ~calls[k].ret.threw

\* C26: once every call of migrateEmbeddings and insertDocument, however
\* they interleaved at their awaits, has completed successfully, every
\* document has exactly one embedding row and searchSimilar returns no id
\* twice.
C26_OneEmbeddingAfterConcurrentCalls ==
    AllSucceeded =>
        /\ OneEmbeddingEach
        /\ LET found == searchSimilar(<<SCALE, 0>>, 2 * MaxDocs, TRUE,
                                      NoFilters).value
           IN  \A i, j \in 1..Len(found) :
                   found[i].id = found[j].id => i = j

\* C27: every call of migrateExistingDocuments and batchMigrateDocuments
\* comes to its end; when it returns, it has called
\* generateDocumentEmbedding once for each document of getAllDocuments, in
\* their order, whatever failed on the way, migratedCount + errors.length
\* is totalCount, and success is true exactly when migratedCount > 0.
C27_MigrationsTerminateAndCount ==
    /\ [](\A k \in 1..Len(calls) :
             (calls[k].at = "done" /\ ~calls[k].ret.threw) =>
                 LET ret == calls[k].ret.value
                 IN  /\ calls[k].attempted = IdSeq(getAllDocuments)
                     /\ ret.totalCount = Len(documents)
                     /\ ret.migratedCount + Len(ret.errors) = ret.totalCount
                     /\ ret.success <=> ret.migratedCount > 0)
    /\ \A k \in 1..MaxCalls :
          (Len(calls) >= k) ~> (Len(calls) >= k /\ calls[k].at = "done")

\* a batch migration of three documents in batches of two has returned:
\* the first document failed and a later one was migrated
C27_Witness ==
    /\ Len(calls) >= 1
    /\ calls[1].op = "batchMigrateDocuments"
    /\ calls[1].at = "done"
    /\ ~calls[1].ret.threw
    /\ Len(documents) = 3
    /\ Len(calls[1].ret.value.errors) >= 1
    /\ calls[1].ret.value.errors[1][2] = calls[1].attempted[1]
    /\ calls[1].ret.value.migratedCount >= 1

====
